---- MODULE Spec2Model ----
(***************************************************************************)
(* A model of the tarlox interpreter: the environment of binding cells     *)
(* (src/src/executor/environment.rs), the executor that reads and writes   *)
(* it (src/src/executor.rs, src/src/executor/callable.rs), the resolver    *)
(* (src/src/resolver.rs) and the run pipeline (src/src/main.rs).           *)
(***************************************************************************)
EXTENDS Integers, Sequences, FiniteSets, TLC

\* ------------------------------------------------------------------------
\* Bounds of the model
\* ------------------------------------------------------------------------
NWorkers == 2       \* threads of the WORKERS pool (available_parallelism)
MaxLines == 4       \* lines typed at the interactive prompt
MaxVal == 2         \* number literals are 1..MaxVal
MaxUnits == 2       \* source units typed at the prompt in a session
MaxFib == 3         \* fib is called with 0..MaxFib
MaxTail == 3        \* the tail-recursive sum is called with 0..MaxTail

\* ------------------------------------------------------------------------
\* Values, results and binding cells
\* ------------------------------------------------------------------------
Shared == "x"                    \* the variable the session declares, assigns and prints
Reader == "z"                    \* var z = x;  (a read of x made by a worker)
RootNames == {Shared, Reader}
FnName == "f"                    \* fun f() { var y = <number>; return y; }
InnerName == "y"
Names == RootNames \cup {FnName, InnerName} \cup {"q", "n", "fib", "a", "b", "sum", "acc"}
    \cup {"this", "A", "B", "C", "g", "h"}

\* LoxObject: t the variant, n the number (or the id of a callable or of an
\* instance), s the characters of a string
NilObj == [t |-> "Nil", n |-> 0, s |-> ""]
NumObj(n) == [t |-> "Number", n |-> n, s |-> ""]
FunObj == [t |-> "Callable", n |-> 0, s |-> ""]

Ok(o) == [ok |-> TRUE, obj |-> o, err |-> "none"]
Err(e) == [ok |-> FALSE, obj |-> NilObj, err |-> e]
NoRes == [ok |-> FALSE, obj |-> NilObj, err |-> "unevaluated"]

\* PackagedObject: Pending(Mutex<bool>, Condvar) | Ready(LoxResult<LoxObject>).
\* d is the declaration the cell was made for (a history field).
Pending(d) == [st |-> "Pending", flag |-> FALSE, res |-> NoRes, d |-> d]
Ready(r, d) == [st |-> "Ready", flag |-> FALSE, res |-> r, d |-> d]
Absent == [st |-> "Absent", flag |-> FALSE, res |-> NoRes, d |-> 0]

\* impl From<&LoxError> for LoxError: the copy handed to a reader of Ready(Err)
CloneResult(r) ==
    IF r.ok THEN Ok([t |-> r.obj.t, n |-> r.obj.n, s |-> r.obj.s]) ELSE Err(r.err)

\* Expressions of the initializers the model runs
Lit(v) == [k |-> "lit", v |-> v, n |-> "x", dist |-> 0]
Bad == [k |-> "err", v |-> 0, n |-> "x", dist |-> 0]             \* "a" - 1
Ref(n, dist) == [k |-> "ref", v |-> 0, n |-> n, dist |-> dist]    \* n
CallF(v, dist) == [k |-> "call", v |-> v, n |-> FnName, dist |-> dist] \* f()
NoExpr == [k |-> "none", v |-> 0, n |-> "x", dist |-> 0]
NilInit == [k |-> "nil", v |-> 0, n |-> "x", dist |-> 0]             \* var x;

NoTask == [d |-> 0, env |-> 0, sub |-> 0, key |-> "x", expr |-> NoExpr]

VARIABLES
    envs,       \* the Environments: <<[enclosing, values, last]>>, 1 is the executor's root
    scopes,     \* Resolver.scopes: stack of the names each scope declares
    queue,      \* jobs handed to WORKERS.execute, not yet started
    wk,         \* the worker threads
    mn,         \* the main thread (run_prompt)
    lines,      \* lines read so far
    decls,      \* history: every binding made, by put, put_immediately or assign_at
    evalRes,    \* history: the result of each deferred initializer's evaluation
    lastRead,   \* history: the last variable read each thread completed
    dead,       \* history: declarations whose worker task panicked
    interp      \* the interpreter of the sessions that run whole source units

poolVars == <<envs, scopes, queue, wk, mn, lines, decls, evalRes, lastRead, dead>>
vars == <<envs, scopes, queue, wk, mn, lines, decls, evalRes, lastRead, dead, interp>>

Workers == 1..NWorkers
Main == 0
Threads == {Main} \cup Workers

NoRead == [env |-> 0, name |-> "x", res |-> NoRes, d |-> 0, done |-> FALSE]

\* Environment::default / new_with_parent
NewEnvFor(parent, tag) ==
    [enclosing |-> parent, values |-> [n \in Names |-> Absent],
     last |-> [n \in Names |-> 0],           \* history: the newest binding of the name
     was |-> [n \in Names |-> FALSE],        \* history: the name has held a Ready cell
     tag |-> tag]                            \* history: the syntax node it was made for
NewEnv(parent) == NewEnvFor(parent, 0)

\* The state of thread t
Th(t) == IF t = Main THEN mn ELSE wk[t]

\* Environment::ancestor in the table E of environments: distance parent links
\* up from e, 0 (None) when the chain ends first
RECURSIVE ancestor(_, _, _)
ancestor(E, e, distance) ==
    IF distance = 0 THEN e
    ELSE IF E[e].enclosing = 0 THEN 0
    ELSE ancestor(E, E[e].enclosing, distance - 1)

\* Environment::get: the environment of e's chain whose own map holds key, 0 if none
RECURSIVE get(_, _, _)
get(E, e, key) ==
    IF E[e].values[key].st # "Absent" THEN e
    ELSE IF E[e].enclosing = 0 THEN 0
    ELSE get(E, E[e].enclosing, key)

\* One scope of Resolver.scopes: the names it holds, those marked defined (true),
\* and, as history, the syntax node that opened it (0 for the global scope)
NewScope(tag) == [names |-> {}, defined |-> {}, tag |-> tag]

\* The innermost scope of sc that contains the name, 0 if none
FoundAt(sc, name) ==
    IF \E i \in 1..Len(sc) : name \in sc[i].names
    THEN CHOOSE i \in 1..Len(sc) :
            /\ name \in sc[i].names
            /\ \A j \in (i+1)..Len(sc) : name \notin sc[j].names
    ELSE 0

\* The index of the scope in place of its distance from the innermost one
resolve_local_by_index(sc, name) ==
    IF FoundAt(sc, name) = 0 THEN -1 ELSE FoundAt(sc, name) - 1

\* Resolver::resolve_local: scopes.len() - 1 - index of the innermost scope that
\* contains the name; -1 when no scope does (nothing is recorded in locals)
resolve_local(sc, name) ==
    IF FoundAt(sc, name) = 0 THEN -1 ELSE Len(sc) - FoundAt(sc, name)

\* Resolver::declare and Resolver::define on the innermost scope
declare(sc, name) ==
    [sc EXCEPT ![Len(sc)].names = @ \cup {name}, ![Len(sc)].defined = @ \ {name}]
define(sc, name) ==
    [sc EXCEPT ![Len(sc)].names = @ \cup {name}, ![Len(sc)].defined = @ \cup {name}]

\* A DashMap shard is write-locked by insert and remove and read-locked while a
\* Ref is held. A reader blocked on a Pending cell's condvar keeps its Ref.
SameShard(a, b) == a = b
HoldsRef(t, e, key) ==
    /\ Th(t).pc = "wait"
    /\ ancestor(envs, Th(t).rbase, Th(t).rdist) = e
    /\ SameShard(Th(t).rname, key)
WriteLockFree(e, key) == \A t \in Threads : ~HoldsRef(t, e, key)

Alive == mn.pc \notin {"panicked", "exited"}

IdleMain == [pc |-> "prompt", name |-> "x", expr |-> NoExpr, existing |-> Absent,
             rbase |-> 0, rdist |-> 0, rname |-> "x"]
IdleWorker == [pc |-> "idle", task |-> NoTask, rbase |-> 0, rdist |-> 0, rname |-> "x",
               val |-> NoRes]

Init ==
    /\ envs = <<NewEnv(0)>>
    /\ scopes = <<NewScope(0)>>
    /\ queue = <<>>
    /\ wk = [w \in Workers |-> IdleWorker]
    /\ mn = IdleMain
    /\ lines = 0
    /\ decls = <<>>
    /\ evalRes = <<>>
    /\ lastRead = [t \in Threads |-> NoRead]
    /\ dead = {}
    /\ interp = [ph |-> "off"]

\* ------------------------------------------------------------------------
\* The main thread: one line of the prompt at a time (run_prompt, run)
\* ------------------------------------------------------------------------
CanType == Alive /\ mn.pc = "prompt" /\ lines < MaxLines

\* The initializers a line `var n = <expr>;` may have, with the distances the
\* resolver records for them while n is declared but not yet defined
Initializers(n) ==
    LET sc == declare(scopes, n) IN
    IF n = Shared
    THEN {Lit(v) : v \in 1..MaxVal} \cup {Bad} \cup {CallF(0, resolve_local(sc, FnName))}
    ELSE {Ref(Shared, resolve_local(sc, Shared)), CallF(0, resolve_local(sc, FnName))}

\* create_sub_environment!: with an old cell, a new Environment holding only it
\* and enclosing the real one; without, the real environment itself
SubEnvironment(E, existing, key, e) ==
    IF existing.st # "Absent"
    THEN [id |-> Len(E) + 1,
          made |-> <<[NewEnvFor(e, -1) EXCEPT !.values[key] = existing]>>]
    ELSE [id |-> e, made |-> <<>>]

\* `var n = e;`: Resolver::var_statement, then Statement::Var -> environment::put
\* up to `environment.values.remove(&key)`
PutRemove(n, e) ==
    /\ CanType
    /\ n \notin scopes[Len(scopes)].names
    /\ WriteLockFree(1, n)
    /\ scopes' = define(declare(scopes, n), n)
    /\ mn' = [mn EXCEPT !.pc = "put", !.name = n, !.expr = e,
                        !.existing = envs[1].values[n]]
    /\ envs' = [envs EXCEPT ![1].values[n] = Absent]
    /\ lines' = lines + 1
    /\ UNCHANGED <<queue, wk, decls, evalRes, lastRead, dead>>
    /\ UNCHANGED interp

\* put evaluating the initializer itself: a Ready cell and no job
PutInsertSynchronous ==
    /\ Alive
    /\ mn.pc = "put"
    /\ WriteLockFree(1, mn.name)
    /\ LET d == Len(decls) + 1
           r == IF mn.expr.k = "lit" THEN Ok(NumObj(mn.expr.v)) ELSE Err("TypeError")
       IN /\ envs' = [envs EXCEPT ![1].values[mn.name] = Ready(r, d),
                                  ![1].last[mn.name] = d, ![1].was[mn.name] = TRUE]
          /\ decls' = Append(decls, [name |-> mn.name, env |-> 1, kind |-> "put",
                                     expr |-> mn.expr, done |-> TRUE])
          /\ evalRes' = Append(evalRes, r)
    /\ mn' = IdleMain
    /\ UNCHANGED <<scopes, queue, wk, lines, lastRead, dead>>
    /\ UNCHANGED interp

\* environment::put from the insert of the Pending cell to WORKERS.execute
PutInsert ==
    /\ Alive
    /\ mn.pc = "put"
    /\ WriteLockFree(1, mn.name)
    /\ LET d == Len(decls) + 1
           sub == SubEnvironment(envs, mn.existing, mn.name, 1)
       IN /\ envs' = [envs EXCEPT ![1].values[mn.name] = Pending(d),
                                  ![1].last[mn.name] = d] \o sub.made
          /\ queue' = Append(queue, [d |-> d, env |-> 1, sub |-> sub.id,
                                     key |-> mn.name, expr |-> mn.expr])
          /\ decls' = Append(decls, [name |-> mn.name, env |-> 1, kind |-> "put",
                                     expr |-> mn.expr, done |-> FALSE])
          /\ evalRes' = Append(evalRes, NoRes)
    /\ mn' = IdleMain
    /\ UNCHANGED <<scopes, wk, lines, lastRead, dead>>
    /\ UNCHANGED interp

\* `await var n = v;`, `var n;` and `fun f() {..}`: put_immediately up to the
\* remove
ImmRemove(n, e) ==
    /\ CanType
    /\ n \notin scopes[Len(scopes)].names
    /\ WriteLockFree(1, n)
    /\ scopes' = define(declare(scopes, n), n)
    /\ mn' = [mn EXCEPT !.pc = "imm", !.name = n, !.expr = e,
                        !.existing = envs[1].values[n]]
    /\ envs' = [envs EXCEPT ![1].values[n] = Absent]
    /\ lines' = lines + 1
    /\ UNCHANGED <<queue, wk, decls, evalRes, lastRead, dead>>
    /\ UNCHANGED interp

\* put_immediately handing the initializer to the pool as put does
ImmInsertDeferred ==
    /\ Alive
    /\ mn.pc = "imm"
    /\ WriteLockFree(1, mn.name)
    /\ LET d == Len(decls) + 1
       IN /\ envs' = [envs EXCEPT ![1].values[mn.name] = Pending(d),
                                  ![1].last[mn.name] = d]
          /\ queue' = Append(queue, [d |-> d, env |-> 1, sub |-> 1,
                                     key |-> mn.name, expr |-> mn.expr])
          /\ decls' = Append(decls, [name |-> mn.name, env |-> 1, kind |-> "imm",
                                     expr |-> mn.expr, done |-> FALSE])
          /\ evalRes' = Append(evalRes, NoRes)
    /\ mn' = IdleMain
    /\ UNCHANGED <<scopes, wk, lines, lastRead, dead>>
    /\ UNCHANGED interp

\* put_immediately: the value is evaluated on this thread and inserted Ready
ImmInsert ==
    /\ Alive
    /\ mn.pc = "imm"
    /\ WriteLockFree(1, mn.name)
    /\ LET d == Len(decls) + 1
           r == IF mn.expr.k = "lit" THEN Ok(NumObj(mn.expr.v))
                ELSE IF mn.expr.k = "nil" THEN Ok(NilObj) ELSE Ok(FunObj)
       IN /\ envs' = [envs EXCEPT ![1].values[mn.name] = Ready(r, d),
                                  ![1].last[mn.name] = d, ![1].was[mn.name] = TRUE]
          /\ decls' = Append(decls, [name |-> mn.name, env |-> 1, kind |-> "imm",
                                     expr |-> mn.expr, done |-> TRUE])
          /\ evalRes' = Append(evalRes, r)
    /\ mn' = IdleMain
    /\ UNCHANGED <<scopes, queue, wk, lines, lastRead, dead>>
    /\ UNCHANGED interp

\* `n = v;`: Resolver::assignment_expression, then Expression::Assign ->
\* Environment::assign_at. Without a recorded distance the line is a RuntimeError;
\* with a distance longer than the chain assign_at returns None, which is dropped.
AssignLine(n, v) ==
    /\ CanType
    /\ lines' = lines + 1
    /\ LET distance == resolve_local(scopes, n)
           target == IF distance < 0 THEN 0 ELSE ancestor(envs, 1, distance)
           d == Len(decls) + 1
       IN IF target = 0
          THEN UNCHANGED <<envs, decls, evalRes>>
          ELSE /\ WriteLockFree(target, n)
               /\ envs' = [envs EXCEPT ![target].values[n] = Ready(Ok(NumObj(v)), d),
                                       ![target].last[n] = d, ![target].was[n] = TRUE]
               /\ decls' = Append(decls, [name |-> n, env |-> target, kind |-> "assign",
                                          expr |-> Lit(v), done |-> TRUE])
               /\ evalRes' = Append(evalRes, Ok(NumObj(v)))
    /\ UNCHANGED <<scopes, queue, wk, mn, lastRead, dead>>
    /\ UNCHANGED interp

\* `{ var q = q; }`: Resolver::block_statement pushes a scope, the initializer is
\* rejected and the `?` returns before end_scope; nothing is executed
BadBlockLine ==
    /\ CanType
    /\ lines' = lines + 1
    /\ scopes' = declare(Append(scopes, NewScope(1)), "q")
    /\ UNCHANGED <<envs, queue, wk, mn, decls, evalRes, lastRead, dead>>
    /\ UNCHANGED interp

\* ------------------------------------------------------------------------
\* Reading a variable (Expression::Variable, Executor::lookup_variable)
\* ------------------------------------------------------------------------
ReadTarget(th) == ancestor(envs, th.rbase, th.rdist)
ReadCell(th) == envs[ReadTarget(th)].values[th.rname]
\* get_at(..).unwrap() panics when the chain is too short or the name is not there
LookupPanics(th) == ReadTarget(th) = 0 \/ ReadCell(th).st = "Absent"
ReadRecord(th) ==
    LET d == envs[ReadTarget(th)].last[th.rname] IN
    [env |-> ReadTarget(th), name |-> th.rname, res |-> CloneResult(ReadCell(th).res),
     d |-> d, done |-> d # 0 /\ decls[d].done]
Undefined == Err("Undefined variable")

\* `print n;`: the read starts, or is a RuntimeError when the resolver recorded
\* nothing (GLOBALS holds only clock)
PrintLine(n) ==
    /\ CanType
    /\ lines' = lines + 1
    /\ LET distance == resolve_local(scopes, n)
       IN IF distance < 0
          THEN /\ lastRead' = [lastRead EXCEPT ![Main] =
                                  [env |-> 0, name |-> n, res |-> Undefined, d |-> 0,
                                   done |-> FALSE]]
               /\ mn' = mn
          ELSE /\ mn' = [mn EXCEPT !.pc = "read", !.rbase = 1, !.rdist = distance,
                                   !.rname = n]
               /\ lastRead' = lastRead
    /\ UNCHANGED <<envs, scopes, queue, wk, decls, evalRes, dead>>
    /\ UNCHANGED interp

\* One turn of the read loop on the main thread
MainLookup ==
    /\ mn.pc = "read"
    /\ IF LookupPanics(mn)
       THEN mn' = [mn EXCEPT !.pc = "panicked"] /\ lastRead' = lastRead
       ELSE IF ReadCell(mn).st = "Ready"
       THEN mn' = IdleMain /\ lastRead' = [lastRead EXCEPT ![Main] = ReadRecord(mn)]
       ELSE /\ ~ReadCell(mn).flag
            /\ mn' = [mn EXCEPT !.pc = "wait"]
            /\ lastRead' = lastRead
    /\ UNCHANGED <<envs, scopes, queue, wk, lines, decls, evalRes, dead>>
    /\ UNCHANGED interp

\* cvar.wait_while returns once the flag is set; the Ref is dropped
MainWake ==
    /\ Alive
    /\ mn.pc = "wait"
    /\ ReadCell(mn).flag
    /\ mn' = [mn EXCEPT !.pc = "read"]
    /\ UNCHANGED <<envs, scopes, queue, wk, lines, decls, evalRes, lastRead, dead>>
    /\ UNCHANGED interp

\* ------------------------------------------------------------------------
\* The worker threads: the closure environment::put hands to WORKERS.execute
\* ------------------------------------------------------------------------
\* A thread of the pool takes the oldest job
WStart(w) ==
    /\ Alive
    /\ wk[w].pc = "idle"
    /\ queue # <<>>
    /\ wk' = [wk EXCEPT ![w] = [IdleWorker EXCEPT !.pc = "eval", !.task = Head(queue)]]
    /\ queue' = Tail(queue)
    /\ UNCHANGED <<envs, scopes, mn, lines, decls, evalRes, lastRead, dead>>
    /\ UNCHANGED interp

\* The evaluation of the initializer is done: its result is kept for the insert
Evaluated(w, r) ==
    /\ wk' = [wk EXCEPT ![w].pc = "mark", ![w].val = r]
    /\ evalRes' = [evalRes EXCEPT ![wk[w].task.d] = r]

\* A panic unwinds the job; the pool replaces the thread
Panicked(w) ==
    /\ wk' = [wk EXCEPT ![w] = IdleWorker]
    /\ dead' = dead \cup {wk[w].task.d}

\* executor.eval_expression(&expr) for a literal or an ill-typed operation
EvalConst(w) ==
    /\ Alive
    /\ wk[w].pc = "eval"
    /\ wk[w].task.expr.k \in {"lit", "err"}
    /\ Evaluated(w, IF wk[w].task.expr.k = "lit"
                    THEN Ok(NumObj(wk[w].task.expr.v)) ELSE Err("TypeError"))
    /\ UNCHANGED <<envs, scopes, queue, mn, lines, decls, lastRead, dead>>
    /\ UNCHANGED interp

\* ... for a variable: the read loop starts in the job's sub_environment
EvalRef(w) ==
    /\ Alive
    /\ wk[w].pc = "eval"
    /\ wk[w].task.expr.k = "ref"
    /\ IF wk[w].task.expr.dist < 0
       THEN Evaluated(w, Undefined)
       ELSE /\ wk' = [wk EXCEPT ![w].pc = "read", ![w].rbase = wk[w].task.sub,
                                ![w].rdist = wk[w].task.expr.dist,
                                ![w].rname = wk[w].task.expr.n]
            /\ evalRes' = evalRes
    /\ UNCHANGED <<envs, scopes, queue, mn, lines, decls, lastRead, dead>>
    /\ UNCHANGED interp

\* ... for the call f(): the callee is looked up, Expression::Call makes the
\* call's environment under the caller's, LoxCallable::call runs the body block
\* in a child of it, where `var y = 1;` is put (Pending, job queued) and
\* `return y;` starts the read of y in that block environment
EvalCall(w) ==
    /\ Alive
    /\ wk[w].pc = "eval"
    /\ wk[w].task.expr.k = "call"
    /\ LET t == wk[w].task
           callee == IF t.expr.dist < 0 THEN 0 ELSE ancestor(envs, t.sub, t.expr.dist)
           call_env == Len(envs) + 1
           block_env == Len(envs) + 2
           d == Len(decls) + 1
       IN IF t.expr.dist < 0
          THEN Evaluated(w, Undefined) /\ UNCHANGED <<envs, queue, decls, dead>>
          ELSE IF callee = 0 \/ envs[callee].values[FnName].st # "Ready"
          THEN Panicked(w) /\ UNCHANGED <<envs, queue, decls, evalRes>>
          ELSE /\ envs' = envs \o <<NewEnv(t.sub),
                              [NewEnv(call_env) EXCEPT !.values[InnerName] = Pending(d),
                                                       !.last[InnerName] = d]>>
               /\ queue' = Append(queue, [d |-> d, env |-> block_env, sub |-> block_env,
                                          key |-> InnerName, expr |-> Lit(1)])
               /\ decls' = Append(decls, [name |-> InnerName, env |-> block_env,
                                          kind |-> "put", expr |-> Lit(1),
                                          done |-> FALSE])
               /\ evalRes' = Append(evalRes, NoRes)
               /\ wk' = [wk EXCEPT ![w].pc = "read", ![w].rbase = block_env,
                                   ![w].rdist = 0, ![w].rname = InnerName]
               /\ dead' = dead
    /\ UNCHANGED <<scopes, mn, lines, lastRead>>
    /\ UNCHANGED interp

\* One turn of the read loop on a worker
WLookup(w) ==
    /\ Alive
    /\ wk[w].pc = "read"
    /\ IF LookupPanics(wk[w])
       THEN Panicked(w) /\ UNCHANGED <<evalRes, lastRead>>
       ELSE IF ReadCell(wk[w]).st = "Ready"
       THEN /\ Evaluated(w, CloneResult(ReadCell(wk[w]).res))
            /\ lastRead' = [lastRead EXCEPT ![w] = ReadRecord(wk[w])]
            /\ dead' = dead
       ELSE /\ ~ReadCell(wk[w]).flag
            /\ wk' = [wk EXCEPT ![w].pc = "wait"]
            /\ UNCHANGED <<evalRes, lastRead, dead>>
    /\ UNCHANGED <<envs, scopes, queue, mn, lines, decls>>
    /\ UNCHANGED interp

WWake(w) ==
    /\ Alive
    /\ wk[w].pc = "wait"
    /\ ReadCell(wk[w]).flag
    /\ wk' = [wk EXCEPT ![w].pc = "read"]
    /\ UNCHANGED <<envs, scopes, queue, mn, lines, decls, evalRes, lastRead, dead>>
    /\ UNCHANGED interp

\* `if let Pending(mtx, cdv) = sub_environment.get(&key).unwrap().value()`:
\* the flag of the cell found from the sub_environment is set and its waiters
\* are notified; the unwrap panics when the chain holds no such name
MarkedCell(t) == get(envs, t.sub, t.key)
WMark(w) ==
    /\ Alive
    /\ wk[w].pc = "mark"
    /\ LET t == wk[w].task
           e == MarkedCell(t)
       IN IF e = 0
          THEN Panicked(w) /\ envs' = envs
          ELSE /\ envs' = IF envs[e].values[t.key].st = "Pending"
                          THEN [envs EXCEPT ![e].values[t.key].flag = TRUE]
                          ELSE envs
               /\ wk' = [wk EXCEPT ![w].pc = "insert"]
               /\ dead' = dead
    /\ UNCHANGED <<scopes, queue, mn, lines, decls, evalRes, lastRead>>
    /\ UNCHANGED interp

\* `environment.values.insert(key, PackagedObject::Ready(value))`
WInsert(w) ==
    /\ Alive
    /\ wk[w].pc = "insert"
    /\ LET t == wk[w].task
       IN /\ WriteLockFree(t.env, t.key)
          /\ envs' = [envs EXCEPT ![t.env].values[t.key] = Ready(wk[w].val, t.d),
                                  ![t.env].was[t.key] = TRUE]
          /\ decls' = [decls EXCEPT ![t.d].done = TRUE]
    /\ wk' = [wk EXCEPT ![w] = IdleWorker]
    /\ UNCHANGED <<scopes, queue, mn, lines, evalRes, lastRead, dead>>
    /\ UNCHANGED interp

\* ------------------------------------------------------------------------
\* The interactive session
\* ------------------------------------------------------------------------
Next ==
    \/ \E n \in RootNames : \E e \in Initializers(n) : PutRemove(n, e)
    \/ PutInsert
    \/ \E v \in 1..MaxVal : ImmRemove(Shared, Lit(v))
    \/ ImmRemove(FnName, NoExpr)
    \/ ImmRemove(Shared, NilInit)
    \/ ImmInsert
    \/ \E v \in 1..MaxVal : AssignLine(Shared, v)
    \/ PrintLine(Shared)
    \/ BadBlockLine
    \/ MainLookup
    \/ MainWake
    \/ \E w \in Workers :
        \/ WStart(w)
        \/ EvalConst(w)
        \/ EvalRef(w)
        \/ EvalCall(w)
        \/ WLookup(w)
        \/ WWake(w)
        \/ WMark(w)
        \/ WInsert(w)

Spec == Init /\ [][Next]_vars

\* A session at the prompt made of declarations alone: the main thread types
\* `var`, `await var` and `fun` lines, the workers run the deferred initializers
NextDeclare ==
    \/ \E n \in RootNames : \E e \in Initializers(n) : PutRemove(n, e)
    \/ PutInsert
    \/ \E v \in 1..MaxVal : ImmRemove(Shared, Lit(v))
    \/ ImmRemove(FnName, NoExpr)
    \/ ImmRemove(Shared, NilInit)
    \/ ImmInsert
    \/ \E w \in Workers :
        \/ WStart(w)
        \/ EvalConst(w)
        \/ EvalRef(w)
        \/ EvalCall(w)
        \/ WLookup(w)
        \/ WWake(w)
        \/ WMark(w)
        \/ WInsert(w)

SpecDeclare == Init /\ [][NextDeclare]_vars

\* main with a script path, after run has returned Ok: process::exit(0).  The
\* threads of the pool end with the process, wherever they are.
ScriptExit ==
    /\ Alive
    /\ mn.pc = "prompt"
    /\ mn' = [mn EXCEPT !.pc = "exited"]
    /\ UNCHANGED <<envs, scopes, queue, wk, lines, decls, evalRes, lastRead, dead>>
    /\ UNCHANGED interp

\* A script made of declarations alone, run from a file: its statements are
\* executed one after the other by the main thread, which then exits
NextExit ==
    \/ \E n \in RootNames : \E e \in Initializers(n) : PutRemove(n, e)
    \/ PutInsert
    \/ \E v \in 1..MaxVal : ImmRemove(Shared, Lit(v))
    \/ ImmRemove(FnName, NoExpr)
    \/ ImmRemove(Shared, NilInit)
    \/ ImmInsert
    \/ ScriptExit
    \/ \E w \in Workers :
        \/ WStart(w)
        \/ EvalConst(w)
        \/ EvalRef(w)
        \/ EvalCall(w)
        \/ WLookup(w)
        \/ WWake(w)
        \/ WMark(w)
        \/ WInsert(w)

SpecExit == Init /\ [][NextExit]_vars

\* ------------------------------------------------------------------------
\* Claims about deferred bindings
\* ------------------------------------------------------------------------
\* The read a thread completed last was of a name whose newest binding is a
\* deferred declaration
ReadOfDeferred(t) == lastRead[t].d # 0 /\ decls[lastRead[t].d].kind = "put"

\* C1: every read of a name bound by a deferred declaration returns exactly the
\* result of evaluating that declaration's initializer, for every thread and
\* every interleaving; in particular it never returns before the evaluation is done.
C1_ReadReturnsInitializerResult ==
    \A t \in Threads :
        ReadOfDeferred(t) => lastRead[t].res = evalRes[lastRead[t].d]

\* Worker w is blocked in a read of a Pending cell; Producer is the queued job
\* (if any) that would make that cell Ready
BlockedOnQueued(w) ==
    /\ wk[w].pc = "wait"
    /\ ~ReadCell(wk[w]).flag
    /\ \E i \in 1..Len(queue) : queue[i].d = ReadCell(wk[w]).d

\* C2: with a pool of NWorkers threads, no reachable state has every worker
\* blocked on a Pending cell whose producer is still queued (such a state can
\* never be left, so the reads never return).
C2_NoWorkerStarvation == ~(\A w \in Workers : BlockedOnQueued(w))

\* C3: once the cell bound to a name in an environment has been Ready, no later
\* put, put_immediately, assign_at or worker completion makes it Pending again.
C3_ReadyNeverPendingAgain ==
    \A e \in 1..Len(envs) : \A n \in Names :
        envs[e].was[n] => envs[e].values[n].st # "Pending"

\* C4: when a worker has finished the evaluation of a deferred initializer and
\* has marked the cell it looked up, the Pending cell installed for that very
\* declaration (if it is still in an environment) has its flag set, so that the
\* readers blocked on it wake; with or without an earlier binding of the name.
C4_MarksOwnPendingCell ==
    \A w \in Workers :
        wk[w].pc = "insert" =>
            \A e \in 1..Len(envs) : \A n \in Names :
                (envs[e].values[n].st = "Pending" /\ envs[e].values[n].d = wk[w].task.d)
                    => envs[e].values[n].flag

\* C5: once a deferred initializer's error is stored as the binding's
\* Ready(Err), every later read of the binding returns an equal copy of it.
C5_ErrorKeptForReaders ==
    \A t \in Threads :
        (ReadOfDeferred(t) /\ lastRead[t].done /\ ~evalRes[lastRead[t].d].ok)
            => lastRead[t].res = evalRes[lastRead[t].d]

\* ------------------------------------------------------------------------
\* Syntax trees (syntax/expression.rs, syntax/statement.rs)
\* ------------------------------------------------------------------------
\* Expression: Literal | Variable | Assign | Binary | Logical | Call.  id is the
\* id of the name token, the key of Executor.locals; of a literal, name is the
\* variant of LoxLiteral, v its number or truth value and s its characters.
ENone == [k |-> "None", v |-> 0, id |-> 0, name |-> "", s |-> "", args |-> <<>>]
ELit(v) == [k |-> "Literal", v |-> v, id |-> 0, name |-> "Number", s |-> "", args |-> <<>>]
EStr(s) == [k |-> "Literal", v |-> 0, id |-> 0, name |-> "LoxString", s |-> s, args |-> <<>>]
EBool(b) ==
    [k |-> "Literal", v |-> IF b THEN 1 ELSE 0, id |-> 0, name |-> "Bool", s |-> "",
     args |-> <<>>]
ENil == [k |-> "Literal", v |-> 0, id |-> 0, name |-> "Nil", s |-> "", args |-> <<>>]
EVar(id, name) ==
    [k |-> "Variable", v |-> 0, id |-> id, name |-> name, s |-> "", args |-> <<>>]
EAssign(id, name, value) ==
    [k |-> "Assign", v |-> 0, id |-> id, name |-> name, s |-> "", args |-> <<value>>]
EBin(left, op, right) ==
    [k |-> "Binary", v |-> 0, id |-> 0, name |-> op, s |-> "", args |-> <<left, right>>]
\* Parser::or and Parser::and build Logical(left operand, operator, right operand)
ELogical(left, op, right) ==
    [k |-> "Logical", v |-> 0, id |-> 0, name |-> op, s |-> "", args |-> <<left, right>>]
ECall(callee, arguments) ==
    [k |-> "Call", v |-> 0, id |-> 0, name |-> "", s |-> "",
     args |-> <<callee>> \o arguments]
\* Get(object, name), Set(object, name, value), This(keyword) and
\* Super(keyword, method)
EGet(object, name) ==
    [k |-> "Get", v |-> 0, id |-> 0, name |-> name, s |-> "", args |-> <<object>>]
ESet(object, name, value) ==
    [k |-> "Set", v |-> 0, id |-> 0, name |-> name, s |-> "", args |-> <<object, value>>]
EThis(id) ==
    [k |-> "This", v |-> 0, id |-> id, name |-> "this", s |-> "", args |-> <<>>]
ESuper(id, method) ==
    [k |-> "Super", v |-> 0, id |-> id, name |-> method, s |-> "", args |-> <<>>]
EUnary(op, right) ==
    [k |-> "Unary", v |-> 0, id |-> 0, name |-> op, s |-> "", args |-> <<right>>]
\* Expression::Lambda(params, body), kept as the function statement it would be
ELambda(tag, params, body) ==
    [k |-> "Lambda", v |-> 0, id |-> 0, name |-> "", s |-> "",
     args |-> <<[k |-> "Function", name |-> "", tag |-> tag, params |-> params,
                 body |-> <<body>>, e |-> ENone]>>]

\* Statement: Var | AwaitVar | Block | Function | Return | Print |
\* StmtExpression | If | Class.  tag names the syntax node of a block, function
\* or class.
SVar(name, init) ==
    [k |-> "Var", name |-> name, tag |-> 0, params |-> <<>>, body |-> <<>>, e |-> init]
SAwaitVar(name, init) ==
    [k |-> "AwaitVar", name |-> name, tag |-> 0, params |-> <<>>, body |-> <<>>, e |-> init]
SBlock(tag, body) ==
    [k |-> "Block", name |-> "", tag |-> tag, params |-> <<>>, body |-> body, e |-> ENone]
SFunction(tag, name, params, body) ==
    [k |-> "Function", name |-> name, tag |-> tag, params |-> params,
     body |-> <<body>>, e |-> ENone]
SReturn(e) ==
    [k |-> "Return", name |-> "", tag |-> 0, params |-> <<>>, body |-> <<>>, e |-> e]
SPrint(e) ==
    [k |-> "Print", name |-> "", tag |-> 0, params |-> <<>>, body |-> <<>>, e |-> e]
SExpr(e) ==
    [k |-> "StmtExpression", name |-> "", tag |-> 0, params |-> <<>>, body |-> <<>>, e |-> e]
SIf(cond, then) ==
    [k |-> "If", name |-> "", tag |-> 0, params |-> <<>>, body |-> <<then>>, e |-> cond]
\* Class(name, superclass, methods): the methods are Function statements
SClass(tag, name, superclass, methods) ==
    [k |-> "Class", name |-> name, tag |-> tag, params |-> <<>>, body |-> methods,
     e |-> superclass]

\* ------------------------------------------------------------------------
\* The resolver (resolver.rs)
\* ------------------------------------------------------------------------
\* Resolver { scopes, current_function, current_class } with the executor's locals table
\* (Executor.locals, filled by Executor::resolve) and the first error returned.
\* A locals entry keeps, as history, the tag of the scope the name was found in.
NewResolver ==
    [scopes |-> <<NewScope(0)>>, locals |-> {}, cf |-> "None", cc |-> "None",
     err |-> "none"]

begin_scope(rs, tag) == [rs EXCEPT !.scopes = Append(@, NewScope(tag))]
end_scope(rs) == [rs EXCEPT !.scopes = SubSeq(@, 1, Len(@) - 1)]

\* Resolver::declare as called by a statement: ParseError when the innermost
\* scope already holds the name
DeclareName(rs, name) ==
    IF name \in rs.scopes[Len(rs.scopes)].names
    THEN [rs EXCEPT !.err = "ParseError"]
    ELSE [rs EXCEPT !.scopes = declare(@, name)]

DefineName(rs, name) == [rs EXCEPT !.scopes = define(@, name)]

\* Resolver::resolve_local with Executor::resolve: record the distance under the
\* token id, replacing an older entry of the same key
ResolveLocal(rs, id, name) ==
    IF resolve_local(rs.scopes, name) < 0 THEN rs
    ELSE [rs EXCEPT !.locals =
            {l \in @ : l.id # id} \cup
            {[id |-> id, dist |-> resolve_local(rs.scopes, name),
              tag |-> rs.scopes[FoundAt(rs.scopes, name)].tag]}]

\* The check of Resolver::variable_expression: the innermost scope holds the
\* name marked false (declared, not yet defined)
OwnInitializer(rs, name) ==
    LET scope == rs.scopes[Len(rs.scopes)]
    IN name \in scope.names /\ name \notin scope.defined

\* variable_expression without the look at the innermost scope
variable_expression_unchecked(rs, x) == ResolveLocal(rs, x.id, x.name)

\* Resolver::variable_expression
variable_expression(rs, x) ==
    IF OwnInitializer(rs, x.name)
    THEN [rs EXCEPT !.err = "ParseError"]
    ELSE ResolveLocal(rs, x.id, x.name)

RECURSIVE resolve_expression(_, _)
RECURSIVE ResolveEach(_, _, _)
RECURSIVE resolve_statement(_, _)
RECURSIVE resolve(_, _, _)
RECURSIVE DeclareParams(_, _, _)
RECURSIVE ResolveMethods(_, _, _)

\* Resolver::resolve_expression; an error already returned stops everything
\* (every call is followed by `?`)
\* Resolver::lambda_expression: the parameters are declared and defined in the
\* scope that is innermost where the lambda stands, the body is resolved, no
\* scope is pushed and current_function is left as it is
lambda_expression(x, rs) ==
    resolve_statement(x.args[1].body[1], DeclareParams(x.args[1].params, 1, rs))

resolve_expression(x, rs) ==
    IF rs.err # "none" THEN rs
    ELSE CASE x.k = "Variable" -> variable_expression(rs, x)
           [] x.k = "Assign" ->
                LET r1 == resolve_expression(x.args[1], rs)
                IN IF r1.err # "none" THEN r1 ELSE ResolveLocal(r1, x.id, x.name)
           [] x.k \in {"Binary", "Logical", "Call"} -> ResolveEach(x.args, 1, rs)
           [] x.k = "Get" -> resolve_expression(x.args[1], rs)
           [] x.k = "Set" ->
                resolve_expression(x.args[1], resolve_expression(x.args[2], rs))
           [] x.k = "This" ->
                IF rs.cc = "None" THEN [rs EXCEPT !.err = "ParseError"]
                ELSE ResolveLocal(rs, x.id, "this")
           [] x.k = "Super" -> ResolveLocal(rs, x.id, "super")
           [] x.k = "Unary" -> resolve_expression(x.args[1], rs)
           [] x.k = "Lambda" -> lambda_expression(x, rs)
           [] OTHER -> rs

\* binary_expression, logical_expression, call_expression: the operands from
\* left to right
ResolveEach(args, i, rs) ==
    IF rs.err # "none" \/ i > Len(args) THEN rs
    ELSE ResolveEach(args, i + 1, resolve_expression(args[i], rs))

\* the parameter loop of Resolver::resolve_function
DeclareParams(params, i, rs) ==
    IF rs.err # "none" \/ i > Len(params) THEN rs
    ELSE LET r1 == DeclareName(rs, params[i])
         IN IF r1.err # "none" THEN r1
            ELSE DeclareParams(params, i + 1, DefineName(r1, params[i]))

\* Resolver::resolve_statement.  block_statement and resolve_function return
\* through `?` before end_scope when the body is rejected.
resolve_statement(s, rs) ==
    IF rs.err # "none" THEN rs
    ELSE CASE s.k \in {"Var", "AwaitVar"} ->
                LET r1 == DeclareName(rs, s.name)
                    r2 == IF s.e.k = "None" THEN r1 ELSE resolve_expression(s.e, r1)
                IN IF r2.err # "none" THEN r2 ELSE DefineName(r2, s.name)
           [] s.k = "Block" ->
                LET r1 == resolve(s.body, 1, begin_scope(rs, s.tag))
                IN IF r1.err # "none" THEN r1 ELSE end_scope(r1)
           [] s.k = "Function" ->
                LET r1 == DeclareName(rs, s.name)
                    r2 == begin_scope([DefineName(r1, s.name) EXCEPT !.cf = "Function"],
                                      s.tag)
                    r3 == resolve_statement(s.body[1], DeclareParams(s.params, 1, r2))
                IN IF r1.err # "none" THEN r1
                   ELSE IF r3.err # "none" THEN r3
                   ELSE [end_scope(r3) EXCEPT !.cf = rs.cf]
           [] s.k = "Return" ->
                IF s.e.k = "None" THEN rs
                ELSE IF rs.cf \in {"None", "Initializer"}
                     THEN [rs EXCEPT !.err = "ParseError"]
                ELSE resolve_expression(s.e, rs)
           [] s.k \in {"Print", "StmtExpression"} -> resolve_expression(s.e, rs)
           [] s.k = "If" ->
                resolve(s.body, 1, resolve_expression(s.e, rs))
           [] s.k = "Class" ->
                LET r1 == DeclareName(rs, s.name)
                    r2 == [DefineName(r1, s.name) EXCEPT !.cc = "Class"]
                    r3 == IF s.e.k = "None" THEN r2
                          ELSE DefineName(resolve_expression(s.e, r2), "super")
                    r4 == ResolveMethods(s.body, 1,
                                         DefineName(begin_scope(r3, s.tag), "this"))
                IN IF r1.err # "none" THEN r1
                   ELSE IF s.e.k = "Variable" /\ s.e.name = s.name
                        THEN [r2 EXCEPT !.err = "ParseError"]
                   ELSE IF r3.err # "none" THEN r3
                   ELSE IF r4.err # "none" THEN r4
                   ELSE [end_scope(r4) EXCEPT !.cc = rs.cc]
           [] OTHER -> rs

\* The method loop of Resolver::class_statement: resolve_function of each
\* method as a Method, of init as the Initializer
ResolveMethods(methods, i, rs) ==
    IF rs.err # "none" \/ i > Len(methods) THEN rs
    ELSE LET m == methods[i]
             r2 == begin_scope([rs EXCEPT !.cf = IF m.name = "init" THEN "Initializer"
                                                 ELSE "Method"], m.tag)
             r3 == resolve_statement(m.body[1], DeclareParams(m.params, 1, r2))
         IN IF r3.err # "none" THEN r3
            ELSE ResolveMethods(methods, i + 1, [end_scope(r3) EXCEPT !.cf = rs.cf])

\* Resolver::resolve: the statements in order, stopping at the first error
resolve(statements, i, rs) ==
    IF rs.err # "none" \/ i > Len(statements) THEN rs
    ELSE resolve(statements, i + 1, resolve_statement(statements[i], rs))

\* ------------------------------------------------------------------------
\* The executor on syntax trees (executor.rs, executor/callable.rs), with a
\* deferred initializer evaluated by its worker before the declaring thread
\* goes on
\* ------------------------------------------------------------------------
BoolObj(b) == [t |-> "Boolean", n |-> IF b THEN 1 ELSE 0, s |-> ""]
CallableObj(f) == [t |-> "Callable", n |-> f, s |-> ""]
StrObj(s) == [t |-> "LoxString", n |-> 0, s |-> s]
\* LoxObject::Instance(id, class, fields): the class and the field table are
\* those of st.instances[id]
InstanceObj(i) == [t |-> "Instance", n |-> i, s |-> ""]

\* impl From<&LoxObject> for bool
Truthy(o) == ~(o.t = "Nil" \/ (o.t = "Boolean" /\ o.n = 0))

\* LoxError::Return(environment, expression); a panic of the evaluating thread
\* (Option::unwrap on None); a wait on a cell that nothing will mark
ReturnSignal(env, e) ==
    [ok |-> FALSE, obj |-> NilObj, err |-> "Return", env |-> env, e |-> e]
Panic == Err("panic")
Blocked == Err("blocked")
Stops(res) == res.err \in {"panic", "blocked"}

\* Everything evaluation reads and writes: the environments, the callables made
\* by LoxCallable::new, new_method, bind and Class, the classes, the instances,
\* Executor.locals and the lines printed; as history, the
\* references whose lookup missed the scope the resolver found (misses), the
\* functions called with another parent than their declaring environment (dyn),
\* whether every declaration and block so far left the other maps alone, the
\* number of invocations of LoxCallable::call in progress and its maximum, and
\* whether a parameter was bound from an argument list of another length than
\* the arity (misbound).
NewStore ==
    [envs |-> <<NewEnvFor(0, 0)>>, funs |-> <<>>, classes |-> <<>>,
     instances |-> <<>>, locals |-> {}, out |-> <<>>,
     misses |-> {}, dyn |-> {}, frame |-> TRUE, depth |-> 0, maxdepth |-> 0,
     misbound |-> FALSE]

R(st, res) == [st |-> st, res |-> res]

\* LoxClass::find_method in the classes C: the class's own method of the name,
\* otherwise the superclass's find_method; 0 for None
RECURSIVE find_method(_, _, _)
find_method(C, c, name) ==
    IF \E m \in C[c].methods : m.name = name
    THEN (CHOOSE m \in C[c].methods : m.name = name).fun
    ELSE IF C[c].superclass # 0 THEN find_method(C, C[c].superclass, name)
    ELSE 0

\* LoxCallable::arity
arity(st, f) ==
    IF st.funs[f].class = 0 THEN Len(st.funs[f].params)
    ELSE IF find_method(st.classes, st.funs[f].class, "init") = 0 THEN 0
    ELSE Len(st.funs[find_method(st.classes, st.funs[f].class, "init")].params)

\* impl ToString for LoxObject
to_string(st, o) ==
    CASE o.t = "Number" -> ToString(o.n)
      [] o.t = "LoxString" -> o.s
      [] o.t = "Boolean" -> IF o.n = 1 THEN "true" ELSE "false"
      [] o.t = "Callable" ->
            IF st.funs[o.n].class # 0
            THEN "#<class " \o st.classes[st.funs[o.n].class].name \o ">"
            ELSE "<fun arity: " \o ToString(arity(st, o.n)) \o ">"
      [] o.t = "Instance" ->
            "#<" \o st.classes[st.instances[o.n].class].name \o " instance as "
            \o ToString(o.n) \o ">"
      [] OTHER -> "nil"

\* LoxCallable::bind: a copy of f with a new id, no cache and `this`
bind(st, f, this) ==
    [st EXCEPT !.funs = Append(st.funs, [st.funs[f] EXCEPT !.this = this,
                                                            !.memo = FALSE,
                                                            !.cache = {}])]

\* The entry of name in the field table of instance i
HasField(st, i, name) == \E f \in st.instances[i].fields : f.name = name
Field(st, i, name) == (CHOOSE f \in st.instances[i].fields : f.name = name).val

\* The class's method searched before the instance's own field
ObjectGetMethodFirst(st, o, name) ==
    IF o.t # "Instance" THEN R(st, Err("Only instances have properties"))
    ELSE IF find_method(st.classes, st.instances[o.n].class, name) # 0
         THEN R(bind(st, find_method(st.classes, st.instances[o.n].class, name), o.n),
                Ok(CallableObj(Len(st.funs) + 1)))
    ELSE IF HasField(st, o.n, name) THEN R(st, CloneResult(Ok(Field(st, o.n, name))))
    ELSE R(st, Err("Undefined property"))

\* LoxObject::get
object_get(st, o, name) ==
    IF o.t # "Instance" THEN R(st, Err("Only instances have properties"))
    ELSE IF HasField(st, o.n, name) THEN R(st, CloneResult(Ok(Field(st, o.n, name))))
    ELSE IF find_method(st.classes, st.instances[o.n].class, name) # 0
         THEN R(bind(st, find_method(st.classes, st.instances[o.n].class, name), o.n),
                Ok(CallableObj(Len(st.funs) + 1)))
    ELSE R(st, Err("Undefined property"))

\* fields.insert of LoxObject::set
object_set(st, o, name, value) ==
    R([st EXCEPT !.instances[o.n].fields =
            {f \in @ : f.name # name} \cup {[name |-> name, val |-> value]}],
      Ok(value))

\* impl PartialEq for LoxObject (callables by the hash of arity and id, instances
\* by id) and LoxObject::is_equal
eq(l, r) == l.t = r.t /\ l.n = r.n /\ l.s = r.s
is_equal(l, r) ==
    IF l.t = "Nil" /\ r.t = "Nil" THEN TRUE
    ELSE IF l.t = "Nil" THEN FALSE
    ELSE eq(l, r)

BothNumbers(l, r) == l.t = "Number" /\ r.t = "Number"
TypeError == Err("TypeError")

\* impl Mul, Div, Sub for LoxObject.  A quotient that is not an integer is kept
\* as the fraction it stands for.
Mul(l, r) == IF BothNumbers(l, r) THEN Ok(NumObj(l.n * r.n)) ELSE TypeError
Div(l, r) ==
    IF ~BothNumbers(l, r) THEN TypeError
    ELSE IF r.n > 0 /\ l.n >= 0 /\ l.n % r.n = 0 THEN Ok(NumObj(l.n \div r.n))
    ELSE Ok([t |-> "Number", n |-> 0, s |-> ToString(l.n) \o "/" \o ToString(r.n)])
Sub(l, r) == IF BothNumbers(l, r) THEN Ok(NumObj(l.n - r.n)) ELSE TypeError

\* An addition that takes a string only with a string
AddStrict(st, l, r) ==
    IF l.t = "LoxString" /\ r.t = "LoxString" THEN Ok(StrObj(l.s \o r.s))
    ELSE IF BothNumbers(l, r) THEN Ok(NumObj(l.n + r.n))
    ELSE TypeError

\* impl Add for LoxObject: (LoxString(l), r) is matched first, whatever r is
Add(st, l, r) ==
    IF l.t = "LoxString" THEN Ok(StrObj(l.s \o to_string(st, r)))
    ELSE IF BothNumbers(l, r) THEN Ok(NumObj(l.n + r.n))
    ELSE TypeError

\* LoxObject::is_greater, is_greater_equal, is_less, is_less_equal
is_greater(l, r) == IF BothNumbers(l, r) THEN Ok(BoolObj(l.n > r.n)) ELSE TypeError
is_greater_equal(l, r) ==
    IF ~is_greater(l, r).ok THEN is_greater(l, r)
    ELSE Ok(BoolObj(Truthy(is_greater(l, r).obj) \/ is_equal(l, r)))
is_less(l, r) == IF BothNumbers(l, r) THEN Ok(BoolObj(l.n < r.n)) ELSE TypeError
is_less_equal(l, r) ==
    IF ~is_less(l, r).ok THEN is_less(l, r)
    ELSE Ok(BoolObj(Truthy(is_less(l, r).obj) \/ is_equal(l, r)))

\* The `match operator` of Expression::Binary
BinaryOp(st, op, l, r) ==
    CASE op = "*" -> Mul(l, r)
      [] op = "/" -> Div(l, r)
      [] op = "-" -> Sub(l, r)
      [] op = "+" -> Add(st, l, r)
      [] op = "==" -> Ok(BoolObj(is_equal(l, r)))
      [] op = "!=" -> Ok(BoolObj(~is_equal(l, r)))
      [] op = ">" -> is_greater(l, r)
      [] op = ">=" -> is_greater_equal(l, r)
      [] op = "<" -> is_less(l, r)
      [] op = "<=" -> is_less_equal(l, r)
      [] OTHER -> Panic

\* The entry of Executor.locals for a token id
HasLocal(st, id) == \E l \in st.locals : l.id = id
Local(st, id) == CHOOSE l \in st.locals : l.id = id

\* The lookup from env reached the environment made for the scope the resolver
\* found the name in
Agrees(st, env, l) ==
    /\ ancestor(st.envs, env, l.dist) # 0
    /\ st.envs[ancestor(st.envs, env, l.dist)].tag = l.tag

\* A removal that goes up the chain like Environment::remove: the first cell of
\* the name in the environment or an ancestor
RemoveUpChain(E, e, key) ==
    IF get(E, e, key) = 0 THEN [cell |-> Absent, envs |-> E]
    ELSE [cell |-> E[get(E, e, key)].values[key],
          envs |-> [E EXCEPT ![get(E, e, key)].values[key] = Absent]]

\* environment.values.remove(&key) in put and put_immediately: the
\* environment's own map only
values_remove(E, e, key) ==
    [cell |-> E[e].values[key], envs |-> [E EXCEPT ![e].values[key] = Absent]]

\* From E1 to E2 nothing but the cell of key in e changed
OnlyChanged(E1, E2, e, key) ==
    \A i \in 1..Len(E1) :
        /\ E2[i].enclosing = E1[i].enclosing
        /\ \A n \in Names : (i # e \/ n # key) => E2[i].values[n] = E1[i].values[n]

\* The names a block's own statements declare
DeclaredIn(body) ==
    {body[i].name : i \in {j \in 1..Len(body) : body[j].k \in {"Var", "AwaitVar", "Function"}}}

\* Around a block run in a child of env: the environments that existed before
\* keep their parent and their cells of the names the block declares
BlockFrame(E1, E2, body) ==
    \A i \in 1..Len(E1) :
        /\ E2[i].enclosing = E1[i].enclosing
        /\ \A n \in DeclaredIn(body) : E2[i].values[n] = E1[i].values[n]

\* Expression::Literal of each LoxLiteral
Literal(x) ==
    CASE x.name = "Number" -> NumObj(x.v)
      [] x.name = "LoxString" -> StrObj(x.s)
      [] x.name = "Bool" -> BoolObj(x.v = 1)
      [] OTHER -> NilObj

RECURSIVE eval_expression(_, _, _)
RECURSIVE LogicalExpression(_, _, _)
RECURSIVE EvalArgs(_, _, _, _, _)
RECURSIVE eval_statement(_, _, _)
RECURSIVE execute(_, _, _, _)
RECURSIVE call(_, _, _, _)
RECURSIVE CallLoop(_, _, _, _)
RECURSIVE SuperMethod(_, _, _)

\* Expression::Variable: lookup_variable, then the cell.  get_at(..).unwrap()
\* panics when the distance leaves the chain or the map there lacks the name.
VariableExpression(x, env, st) ==
    IF ~HasLocal(st, x.id) THEN R(st, Err("Undefined variable"))
    ELSE LET l == Local(st, x.id)
             a == ancestor(st.envs, env, l.dist)
             st1 == IF Agrees(st, env, l) THEN st
                    ELSE [st EXCEPT !.misses = @ \cup {x.id}]
         IN IF a = 0 THEN R(st1, Panic)
            ELSE IF st.envs[a].values[x.name].st = "Absent" THEN R(st1, Panic)
            ELSE IF st.envs[a].values[x.name].st = "Pending" THEN R(st1, Blocked)
            ELSE R(st1, CloneResult(st.envs[a].values[x.name].res))

\* Expression::Assign with the value v evaluated: Environment::assign_at, whose
\* None is dropped
AssignValue(x, env, v) ==
    LET l == Local(v.st, x.id)
        a == ancestor(v.st.envs, env, l.dist)
        st1 == IF Agrees(v.st, env, l) THEN v.st
               ELSE [v.st EXCEPT !.misses = @ \cup {x.id}]
    IN IF ~v.res.ok THEN v
       ELSE IF a = 0 THEN R(st1, v.res)
       ELSE R([st1 EXCEPT !.envs[a].values[x.name] = Ready(Ok(v.res.obj), 0)], v.res)

\* Expression::Binary with the left operand l evaluated, then with both
BinaryDone(x, l, r) ==
    IF ~r.res.ok THEN r ELSE R(r.st, BinaryOp(r.st, x.name, l.res.obj, r.res.obj))
BinaryRight(x, env, l) ==
    IF ~l.res.ok THEN l ELSE BinaryDone(x, l, eval_expression(x.args[2], env, l.st))

\* Expression::Logical(right, operator, left) with `left`, the third field,
\* evaluated to v: it is returned when it decides, otherwise `right`, the first
\* field, is evaluated and returned
LogicalDecided(x, env, v) ==
    IF ~v.res.ok THEN v
    ELSE IF x.name = "or" /\ Truthy(v.res.obj) THEN v
    ELSE IF x.name # "or" /\ ~Truthy(v.res.obj) THEN v
    ELSE eval_expression(x.args[1], env, v.st)
LogicalExpression(x, env, st) ==
    LogicalDecided(x, env, eval_expression(x.args[2], env, st))

\* Expression::Get with the object o evaluated
GetObject(x, o) == IF ~o.res.ok THEN o ELSE object_get(o.st, o.res.obj, x.name)

\* Expression::Set with the object o evaluated, then with the value v
SetValue(x, o, v) ==
    IF ~v.res.ok THEN v ELSE object_set(v.st, o.res.obj, x.name, v.res.obj)
SetObject(x, env, o) ==
    IF ~o.res.ok THEN o
    ELSE IF o.res.obj.t # "Instance" THEN R(o.st, Err("Only instances have fields"))
    ELSE SetValue(x, o, eval_expression(x.args[2], env, o.st))

\* Expression::This: lookup_variable of THIS_KEY
ThisExpression(x, env, st) ==
    IF ~HasLocal(st, x.id) THEN R(st, Err("InternalError"))
    ELSE VariableExpression(x, env, st)

\* The loop of Expression::Super from class c: the first superclass up the
\* chain whose find_method has the name; 0 for None
SuperMethod(C, c, name) ==
    IF C[c].superclass = 0 THEN 0
    ELSE IF find_method(C, C[c].superclass, name) # 0
         THEN find_method(C, C[c].superclass, name)
    ELSE SuperMethod(C, C[c].superclass, name)

\* The method of Expression::Super bound to the instance this, of class c
SuperBound(st, c, this, name) ==
    IF SuperMethod(st.classes, c, name) = 0 THEN R(st, Err("Undefined property"))
    ELSE R(bind(st, SuperMethod(st.classes, c, name), this),
           Ok(CallableObj(Len(st.funs) + 1)))

\* Expression::Super: Environment::get of THIS_KEY from the current
\* environment, both unwraps, then the loop from the class of that instance
SuperExpression(x, env, st) ==
    LET e == get(st.envs, env, "this")
    IN IF e = 0 THEN R(st, Panic)
       ELSE IF st.envs[e].values["this"].st = "Pending" THEN R(st, Blocked)
       ELSE IF ~st.envs[e].values["this"].res.ok THEN R(st, Panic)
       ELSE IF st.envs[e].values["this"].res.obj.t # "Instance" THEN R(st, Panic)
       ELSE SuperBound(st, st.instances[st.envs[e].values["this"].res.obj.n].class,
                       st.envs[e].values["this"].res.obj.n, x.name)

\* Expression::Call with the arguments a evaluated: LoxCallable::call in a new
\* child of the environment the call is evaluated in
CallReturned(v) == R([v.st EXCEPT !.depth = @ - 1], v.res)
CallArguments(f, env, a) ==
    IF ~a.res.ok THEN R(a.st, a.res)
    ELSE CallReturned(
            call(f, Len(a.st.envs) + 1, a.vals,
                 [a.st EXCEPT
                     !.envs = Append(@, NewEnvFor(env, a.st.funs[f].tag)),
                     !.dyn = IF env = a.st.funs[f].closure THEN @
                             ELSE @ \cup {a.st.funs[f].tag},
                     !.depth = @ + 1,
                     !.maxdepth = IF a.st.depth + 1 > @ THEN a.st.depth + 1 ELSE @]))

\* Expression::Call with the callee c evaluated
CallCallee(x, env, c) ==
    IF ~c.res.ok THEN c
    ELSE IF c.res.obj.t # "Callable"
         THEN R(c.st, Err("Callee does not match with a function!"))
    ELSE CallArguments(c.res.obj.n, env, EvalArgs(x.args, 2, env, c.st, <<>>))


\* LoxCallable::new for Statement::Function; closure is the environment the
\* statement is executed in, which call never reads
NewCallable(s, env) ==
    [tag |-> s.tag, params |-> s.params, body |-> s.body[1], closure |-> env,
     cache |-> {}, memo |-> TRUE, this |-> 0, init |-> FALSE, class |-> 0]

\* Expression::Unary(Operator::IsReady, right): for a Variable the cell that
\* self.environment.get finds up the chain, Ready or Pending, and a
\* RuntimeError when the chain has none; true for any other operand, which is
\* not evaluated
IsReady(right, env, st) ==
    IF right.k # "Variable" THEN R(st, Ok(BoolObj(TRUE)))
    ELSE IF get(st.envs, env, right.name) = 0
         THEN R(st, Err("Undefined variable while is_ready call"))
    ELSE R(st, Ok(BoolObj(st.envs[get(st.envs, env, right.name)].values[right.name].st
                          = "Ready")))

\* Executor::eval_expression in the environment env
eval_expression(x, env, st) ==
    CASE x.k = "Literal" -> R(st, Ok(Literal(x)))
      [] x.k = "Variable" -> VariableExpression(x, env, st)
      [] x.k = "Assign" ->
            IF ~HasLocal(st, x.id) THEN R(st, Err("Undefined variable while assign"))
            ELSE AssignValue(x, env, eval_expression(x.args[1], env, st))
      [] x.k = "Binary" -> BinaryRight(x, env, eval_expression(x.args[1], env, st))
      [] x.k = "Logical" -> LogicalExpression(x, env, st)
      [] x.k = "Call" -> CallCallee(x, env, eval_expression(x.args[1], env, st))
      [] x.k = "Get" -> GetObject(x, eval_expression(x.args[1], env, st))
      [] x.k = "Set" -> SetObject(x, env, eval_expression(x.args[1], env, st))
      [] x.k = "This" -> ThisExpression(x, env, st)
      [] x.k = "Super" -> SuperExpression(x, env, st)
      [] x.k = "Unary" /\ x.name = "IsReady" -> IsReady(x.args[1], env, st)
      [] x.k = "Lambda" ->
            R([st EXCEPT !.funs = Append(@, NewCallable(x.args[1], env))],
              Ok(CallableObj(Len(st.funs) + 1)))
      [] OTHER -> R(st, Err("InternalError"))

\* The argument loops of Call and of a tail call: args[i..] in order, `?` each
ArgsNext(args, i, env, vals, v) ==
    IF ~v.res.ok THEN [st |-> v.st, res |-> v.res, vals |-> vals]
    ELSE EvalArgs(args, i + 1, env, v.st, Append(vals, v.res.obj))
EvalArgs(args, i, env, st, vals) ==
    IF i > Len(args) THEN [st |-> st, res |-> Ok(NilObj), vals |-> vals]
    ELSE ArgsNext(args, i, env, vals, eval_expression(args[i], env, st))

\* put and put_immediately up to the evaluation: the old cell removed from the
\* environment's own map, the Pending cell of put inserted, the sub-environment
Prepare(st, env, name, pending) ==
    LET rem == values_remove(st.envs, env, name)
        E == IF pending THEN [rem.envs EXCEPT ![env].values[name] = Pending(0)]
             ELSE rem.envs
        sub == SubEnvironment(E, rem.cell, name, env)
    IN [sub |-> sub.id,
        st |-> [st EXCEPT !.envs = E \o sub.made,
                          !.frame = @ /\ OnlyChanged(st.envs, rem.envs, env, name)]]

\* environment::put_immediately with Right(obj)
put_object(st, env, name, obj) ==
    R([Prepare(st, env, name, FALSE).st EXCEPT
          !.envs[env].values[name] = Ready(Ok(obj), 0)], Ok(NilObj))

\* environment::put_immediately with Left(x): the value v is evaluated by the
\* declaring thread in the sub-environment
ImmediateDone(env, name, v) ==
    IF Stops(v.res) THEN v
    ELSE R([v.st EXCEPT !.envs[env].values[name] = Ready(v.res, 0)], Ok(NilObj))
put_immediately(st, env, name, x) ==
    ImmediateDone(env, name,
        eval_expression(x, Prepare(st, env, name, FALSE).sub,
                        Prepare(st, env, name, FALSE).st))

\* environment::put: the Pending cell, then the worker's job run to its end.  A
\* worker that panics or waits forever leaves the cell Pending; put has returned.
PutDone(env, name, v) ==
    IF Stops(v.res) THEN R(v.st, Ok(NilObj))
    ELSE R([v.st EXCEPT !.envs[env].values[name] = Ready(v.res, 0)], Ok(NilObj))
put(st, env, name, x) ==
    PutDone(env, name,
        eval_expression(x, Prepare(st, env, name, TRUE).sub,
                        Prepare(st, env, name, TRUE).st))

\* The parameter loop of LoxCallable::call: put_immediately(.., Right(argument))
\* of arguments.get(index).unwrap(), which panics past the last argument
RECURSIVE BindParams(_, _, _, _, _)
BindParams(params, i, arguments, env, st) ==
    IF i > Len(params) THEN R(st, Ok(NilObj))
    ELSE IF i > Len(arguments) THEN R(st, Panic)
    ELSE BindParams(params, i + 1, arguments, env,
                    [put_object(st, env, params[i], arguments[i]).st EXCEPT
                        !.misbound = @ \/ Len(arguments) # Len(params)])

\* The key of a function's cache: the arguments as strings
CacheKey(st, arguments) == [i \in 1..Len(arguments) |-> to_string(st, arguments[i])]

\* The end of LoxCallable::call with the returned expression evaluated to v:
\* cache.insert for a function with parameters
CallDone(f, arguments, v) ==
    IF ~v.res.ok THEN v
    ELSE IF Len(v.st.funs[f].params) = 0 \/ ~v.st.funs[f].memo THEN v
    ELSE R([v.st EXCEPT !.funs[f].cache =
                {h \in @ : h.key # CacheKey(v.st, arguments)}
                \cup {[key |-> CacheKey(v.st, arguments), val |-> v.res.obj]}],
           v.res)

\* A tail call with its arguments a evaluated: `continue`
TailArguments(f, env, a) ==
    IF ~a.res.ok THEN R(a.st, a.res) ELSE CallLoop(f, env, a.vals, a.st)

\* The returned call evaluated like any other expression, by a call inside the
\* call
ReturnedCallNested(f, env, arguments, inner, e, c) ==
    IF ~c.res.ok THEN c
    ELSE CallDone(f, arguments, eval_expression(e, inner, c.st))

\* Return(inner, e) where e is a call whose callee evaluated to c: the loop goes
\* round when c is this function, otherwise the whole call is evaluated
ReturnedCall(f, env, arguments, inner, e, c) ==
    IF ~c.res.ok THEN c
    ELSE IF c.res.obj = CallableObj(f)
         THEN TailArguments(f, env, EvalArgs(e.args, 2, inner, c.st, <<>>))
    ELSE CallDone(f, arguments, eval_expression(e, inner, c.st))

\* The returned expression evaluated in the environment of the call frame
BodyDoneInFrame(f, env, arguments, b) ==
    IF b.res.ok THEN R(b.st, Ok(NilObj))
    ELSE IF Stops(b.res) THEN R(b.st, b.res)
    ELSE IF b.res.err # "Return"
         THEN IF ~b.st.funs[f].init THEN R(b.st, b.res)
              ELSE R(b.st, IF b.st.funs[f].this = 0 THEN Panic
                           ELSE Ok(InstanceObj(b.st.funs[f].this)))
    ELSE IF b.res.e.k = "None" THEN R(b.st, Ok(NilObj))
    ELSE IF b.res.e.k = "Call"
         THEN ReturnedCall(f, env, arguments, env, b.res.e,
                           eval_expression(b.res.e.args[1], env, b.st))
    ELSE CallDone(f, arguments, eval_expression(b.res.e, env, b.st))

\* The body of f evaluated to b: Ok, the Return signal, whose expression is
\* evaluated in the environment that raised it, or another error, for which
\* an initializer returns `this`
BodyDone(f, env, arguments, b) ==
    IF b.res.ok THEN R(b.st, Ok(NilObj))
    ELSE IF Stops(b.res) THEN R(b.st, b.res)
    ELSE IF b.res.err # "Return"
         THEN IF ~b.st.funs[f].init THEN R(b.st, b.res)
              ELSE R(b.st, IF b.st.funs[f].this = 0 THEN Panic
                           ELSE Ok(InstanceObj(b.st.funs[f].this)))
    ELSE IF b.res.e.k = "None" THEN R(b.st, Ok(NilObj))
    ELSE IF b.res.e.k = "Call"
         THEN ReturnedCall(f, env, arguments, b.res.env, b.res.e,
                           eval_expression(b.res.e.args[1], b.res.env, b.st))
    ELSE CallDone(f, arguments, eval_expression(b.res.e, b.res.env, b.st))

\* The body of f run with the parameters bound in p
ParamsBound(f, env, arguments, p) ==
    IF ~p.res.ok THEN p
    ELSE BodyDone(f, env, arguments, eval_statement(p.st.funs[f].body, env, p.st))

\* One turn of the loop of LoxCallable::call: the cache, the parameters, the body
CallLoop(f, env, arguments, st) ==
    IF /\ st.funs[f].memo
       /\ Len(st.funs[f].params) # 0
       /\ \E h \in st.funs[f].cache : h.key = CacheKey(st, arguments)
    THEN R(st, Ok((CHOOSE h \in st.funs[f].cache : h.key = CacheKey(st, arguments)).val))
    ELSE ParamsBound(f, env, arguments,
                     BindParams(st.funs[f].params, 1, arguments, env, st))

\* The Class branch of LoxCallable::call with the initializer run to v: its
\* result is dropped
Constructed(i, v) == IF Stops(v.res) THEN v ELSE R(v.st, Ok(InstanceObj(i)))

\* The Class branch of LoxCallable::call: a new instance of class c, and init,
\* if the class finds one, bound to it and called with the same executor
ClassCall(c, env, arguments, st) ==
    LET i == Len(st.instances) + 1
        st1 == [st EXCEPT !.instances = Append(@, [class |-> c, fields |-> {}])]
    IN IF find_method(st.classes, c, "init") = 0 THEN R(st1, Ok(InstanceObj(i)))
       ELSE Constructed(i, call(Len(st.funs) + 1, env, arguments,
                                bind(st1, find_method(st.classes, c, "init"), i)))

\* The Function branch of LoxCallable::call before the loop: `this` of a bound
\* method inserted in the parent of the executor's environment
BindThis(f, env, st) ==
    IF st.funs[f].this = 0 THEN st
    ELSE [st EXCEPT !.envs[st.envs[env].enclosing].values["this"] =
                        Ready(Ok(InstanceObj(st.funs[f].this)), 0)]

\* LoxCallable::call: the arity is compared once, before the loop
call(f, env, arguments, st) ==
    IF Len(arguments) # arity(st, f)
    THEN R(st, Err("Wrong number of arguments"))
    ELSE IF st.funs[f].class # 0 THEN ClassCall(st.funs[f].class, env, arguments, st)
    ELSE IF st.funs[f].this # 0 /\ st.envs[env].enclosing = 0 THEN R(st, Panic)
    ELSE CallLoop(f, env, arguments, BindThis(f, env, st))
\* LoxCallable::new_method for a method of a Statement::Class
new_method(s, env) ==
    [tag |-> s.tag, params |-> s.params, body |-> s.body[1], closure |-> env,
     cache |-> {}, memo |-> FALSE, this |-> 0, init |-> (s.name = "init"), class |-> 0]

\* LoxCallable::Class { class } of the class c declared by s
ClassCallable(s, env, c) ==
    [tag |-> s.tag, params |-> <<>>, body |-> s, closure |-> env,
     cache |-> {}, memo |-> FALSE, this |-> 0, init |-> FALSE, class |-> c]

\* Statement::Class with the superclass sup (0 for None): the methods, the last
\* of a name winning, LoxClass::new and put_immediately of the class
DefineClass(s, env, st, sup) ==
    LET F == Len(st.funs)
        M == Len(s.body)
        methods == {[name |-> s.body[i].name, fun |-> F + i] :
                      i \in {j \in 1..M : \A l \in (j + 1)..M : s.body[l].name # s.body[j].name}}
        c == Len(st.classes) + 1
    IN put_object(
          [st EXCEPT
              !.funs = (@ \o [i \in 1..M |-> new_method(s.body[i], env)])
                       \o <<ClassCallable(s, env, c)>>,
              !.classes = Append(@, [name |-> s.name, superclass |-> sup,
                                     methods |-> methods])],
          env, s.name, CallableObj(F + M + 1))

\* Statement::Class with the superclass expression evaluated to v
Superclass(s, env, v) ==
    IF ~v.res.ok THEN v
    ELSE IF v.res.obj.t # "Callable" THEN R(v.st, Ok(NilObj))
    ELSE IF v.st.funs[v.res.obj.n].class = 0
         THEN R(v.st, Err("is not a class but a callable, can not be inherited"))
    ELSE DefineClass(s, env, v.st, v.st.funs[v.res.obj.n].class)

\* Statement::StmtExpression and Statement::Print with the value v evaluated
Discard(v) == IF ~v.res.ok THEN v ELSE R(v.st, Ok(NilObj))
Printed(v) ==
    IF ~v.res.ok THEN v
    ELSE R([v.st EXCEPT !.out = Append(@, to_string(v.st, v.res.obj))], Ok(NilObj))

\* Statement::Block with its statements run to b in the child environment
BlockDone(E, body, b) ==
    R([b.st EXCEPT !.frame = @ /\ BlockFrame(E, b.st.envs, body)], b.res)

\* Statement::If with the condition c evaluated
Branch(s, env, c) ==
    IF ~c.res.ok THEN c
    ELSE IF Truthy(c.res.obj) THEN eval_statement(s.body[1], env, c.st)
    ELSE IF Len(s.body) = 2 THEN eval_statement(s.body[2], env, c.st)
    ELSE R(c.st, Ok(NilObj))

\* Executor::eval_statement in the environment env
eval_statement(s, env, st) ==
    CASE s.k = "StmtExpression" -> Discard(eval_expression(s.e, env, st))
      [] s.k = "Print" -> Printed(eval_expression(s.e, env, st))
      [] s.k = "Var" ->
            IF s.e.k = "None" THEN put_object(st, env, s.name, NilObj)
            ELSE put(st, env, s.name, s.e)
      [] s.k = "AwaitVar" -> put_immediately(st, env, s.name, s.e)
      [] s.k = "Block" ->
            BlockDone(st.envs, s.body,
                      execute(s.body, 1, Len(st.envs) + 1,
                              [st EXCEPT !.envs = Append(@, NewEnvFor(env, s.tag))]))
      [] s.k = "If" -> Branch(s, env, eval_expression(s.e, env, st))
      [] s.k = "Function" ->
            put_object([st EXCEPT !.funs = Append(@, NewCallable(s, env))], env, s.name,
                       CallableObj(Len(st.funs) + 1))
      [] s.k = "Return" -> R(st, ReturnSignal(env, s.e))
      [] s.k = "Class" ->
            IF s.e.k = "None" THEN DefineClass(s, env, st, 0)
            ELSE Superclass(s, env, eval_expression(s.e, env, st))
      [] OTHER -> R(st, Ok(NilObj))

\* Executor::execute: statements[i..] in order, stopping at the first Err
ExecuteNext(statements, i, env, r) ==
    IF ~r.res.ok THEN r ELSE execute(statements, i + 1, env, r.st)
execute(statements, i, env, st) ==
    IF i > Len(statements) THEN R(st, Ok(NilObj))
    ELSE ExecuteNext(statements, i, env, eval_statement(statements[i], env, st))

\* ------------------------------------------------------------------------
\* Source units: what the scanner and the parser make of a line or a file
\* ------------------------------------------------------------------------
\* lex and syn tell whether Scanner::scan_tokens and Parser::parse return Ok;
\* stmts are the statements of the text (those before the fault, if any)
Unit(stmts) == [lex |-> "ok", syn |-> "ok", stmts |-> stmts]

\* var x = v;   or   await var x = v;
DeclUnit(k, v) ==
    Unit(<<IF k = "Var" THEN SVar("x", ELit(v)) ELSE SAwaitVar("x", ELit(v))>>)

\* var x = v; { var x = v + 1; print x; } print x;    (the inner one with var or await var)
ShadowUnit(k, v) ==
    Unit(<<SVar("x", ELit(v)),
           SBlock(1, <<IF k = "Var" THEN SVar("x", ELit(v + 1))
                       ELSE SAwaitVar("x", ELit(v + 1)),
                       SPrint(EVar(11, "x"))>>),
           SPrint(EVar(12, "x"))>>)

\* { var x; print q; }      the block ends by a RuntimeError
BlockErrUnit == Unit(<<SBlock(2, <<SVar("x", ENone), SPrint(EVar(21, "q"))>>)>>)

\* print x;        x = v;
PrintUnit == Unit(<<SPrint(EVar(31, "x"))>>)
AssignUnit(v) == Unit(<<SExpr(EAssign(32, "x", ELit(v)))>>)

\* var x = 3; fun f() { var x = 2; { var x = 1; return x; } } print f(); print x;
ReturnUnit ==
    Unit(<<SVar("x", ELit(3)),
           SFunction(3, "f", <<>>,
                     SBlock(4, <<SVar("x", ELit(2)),
                                 SBlock(5, <<SVar("x", ELit(1)),
                                             SReturn(EVar(41, "x"))>>)>>)),
           SPrint(ECall(EVar(42, "f"), <<>>)),
           SPrint(EVar(43, "x"))>>)

\* var x = x;   await var x = x;   { var x = 1 + x; }   print 1; var x = x;
SelfUnits ==
    {Unit(<<SVar("x", EVar(51, "x"))>>),
     Unit(<<SAwaitVar("x", EVar(52, "x"))>>),
     Unit(<<SBlock(6, <<SVar("x", EBin(ELit(1), "+", EVar(53, "x")))>>)>>),
     Unit(<<SPrint(ELit(1)), SVar("x", EVar(54, "x"))>>)}

\* var x = 1; fun f() { print x; } { var x = 2; f(); }      with or without
\* the inner declaration
DynUnit(inner) ==
    Unit(<<SVar("x", ELit(1)),
           SFunction(7, "f", <<>>, SBlock(8, <<SPrint(EVar(61, "x"))>>)),
           SBlock(9, (IF inner THEN <<SVar("x", ELit(2))>> ELSE <<>>)
                     \o <<SExpr(ECall(EVar(62, "f"), <<>>))>>)>>)

\* fun fib(n) { if (n < 2) return n; return fib(n - 1) + fib(n - 2); } print fib(k);
FibUnit(k) ==
    Unit(<<SFunction(10, "fib", <<"n">>,
             SBlock(11, <<SIf(EBin(EVar(71, "n"), "<", ELit(2)), SReturn(EVar(72, "n"))),
                          SReturn(EBin(ECall(EVar(73, "fib"),
                                             <<EBin(EVar(74, "n"), "-", ELit(1))>>),
                                       "+",
                                       ECall(EVar(75, "fib"),
                                             <<EBin(EVar(76, "n"), "-", ELit(2))>>)))>>)),
           SPrint(ECall(EVar(77, "fib"), <<ELit(k)>>))>>)

\* print q; var x = 1;      fails at run time before x is bound
FailedDeclUnit == Unit(<<SPrint(EVar(33, "q")), SVar("x", ELit(1))>>)

\* print 1; return 1;      rejected by Resolver::return_statement
TopReturnUnit == Unit(<<SPrint(ELit(1)), SReturn(ELit(1))>>)

\* print 1; "abc      and      print 1; print ;
UnterminatedUnit == [Unit(<<SPrint(ELit(1))>>) EXCEPT !.lex = "UnterminatedString"]
MalformedUnit == [Unit(<<SPrint(ELit(1))>>) EXCEPT !.syn = "ParseError"]

Units ==
    {DeclUnit(k, v) : k \in {"Var", "AwaitVar"}, v \in 1..MaxVal}
    \cup {ShadowUnit(k, v) : k \in {"Var", "AwaitVar"}, v \in 1..MaxVal}
    \cup {AssignUnit(v) : v \in 1..MaxVal}
    \cup {BlockErrUnit, PrintUnit, ReturnUnit, TopReturnUnit, UnterminatedUnit,
          MalformedUnit, FailedDeclUnit}
    \cup SelfUnits
    \cup {DynUnit(b) : b \in BOOLEAN}
    \cup {FibUnit(k) : k \in 0..MaxFib}

\* ------------------------------------------------------------------------
\* The run pipeline (main.rs): main with a script, or run_prompt, and run
\* ------------------------------------------------------------------------
\* Executor::new and Resolver::new, before the first unit.  Of the unit in
\* hand: ph the step run has reached, si the statement execute is at, ran the
\* statements executed, resolved whether the resolver has returned, failed the
\* step that returned Err; snap is the store when the unit was read.
StartInterp(mode) ==
    [mode |-> mode, typed |-> 0, seen |-> {}, unit |-> Unit(<<>>), ph |-> "prompt",
     si |-> 0, ran |-> 0, resolved |-> FALSE, failed |-> "none", err |-> "none",
     code |-> 0,
     rs |-> NewResolver, st |-> NewStore, snap |-> NewStore]

InitInterp ==
    /\ envs = <<NewEnv(0)>>
    /\ scopes = <<NewScope(0)>>
    /\ queue = <<>>
    /\ wk = [w \in Workers |-> IdleWorker]
    /\ mn = IdleMain
    /\ lines = 0
    /\ decls = <<>>
    /\ evalRes = <<>>
    /\ lastRead = [t \in Threads |-> NoRead]
    /\ dead = {}
    /\ interp \in {StartInterp(mode) : mode \in {"file", "prompt"}}

\* A status of its own for the script that cannot be read
ExitStatusDistinct(failed) ==
    IF failed = "none" THEN 0 ELSE IF failed = "read" THEN 66 ELSE 65

\* The argument of process::exit in main: 65 after `File not found` and after an
\* Err of run, 0 after Ok
ExitStatus(failed) == IF failed = "none" THEN 0 ELSE 65

\* run returned Err at the step: main prints it and exits, run_prompt prints it
\* and reads the next line
Failing(step) ==
    [interp EXCEPT !.failed = step,
                   !.ph = IF interp.mode = "prompt" THEN "prompt" ELSE "exit",
                   !.code = IF interp.mode = "prompt" THEN 0 ELSE ExitStatus(step)]

\* run returned Ok
Finished ==
    IF interp.mode = "prompt" THEN "prompt" ELSE "exit"

\* fs::read_to_string of the script, or rl.readline at the prompt
ReadUnit(u) ==
    /\ interp.ph = "prompt"
    /\ interp.typed < (IF interp.mode = "prompt" THEN MaxUnits ELSE 1)
    /\ u \notin interp.seen
    /\ interp' = [interp EXCEPT !.unit = u, !.typed = @ + 1, !.seen = @ \cup {u},
                                !.ph = "scan", !.si = 0, !.ran = 0, !.resolved = FALSE,
                                !.failed = "none", !.err = "none", !.snap = interp.st]
    /\ UNCHANGED poolVars

\* fs::read_to_string(path) returned Err: `File not found`, and main exits
ReadMissing ==
    /\ interp.ph = "prompt"
    /\ interp.mode = "file"
    /\ interp.typed = 0
    /\ interp' = [interp EXCEPT !.typed = 1, !.failed = "read", !.ph = "exit",
                                !.code = ExitStatus("read")]
    /\ UNCHANGED poolVars

\* Scanner::new(code).scan_tokens()?
ScanStep ==
    /\ interp.ph = "scan"
    /\ interp' = IF interp.unit.lex = "ok" THEN [interp EXCEPT !.ph = "parse"]
                 ELSE Failing("scan")
    /\ UNCHANGED poolVars

\* Parser::new(&tokens).parse()?
ParseStep ==
    /\ interp.ph = "parse"
    /\ interp' = IF interp.unit.syn = "ok" THEN [interp EXCEPT !.ph = "resolve"]
                 ELSE Failing("parse")
    /\ UNCHANGED poolVars

\* run going on to execute whatever the resolver returned
ExecuteAnyway(err) == "execute"

\* The `?` after resolver.resolve(..): where run goes with the resolver's result
AfterResolve(err) == IF err = "none" THEN "execute" ELSE "failed"

\* resolver.resolve(Arc::clone(&stmt))?  with the resolver kept from unit to unit
ResolveStep ==
    /\ interp.ph = "resolve"
    /\ LET rs1 == resolve(interp.unit.stmts, 1, [interp.rs EXCEPT !.err = "none"])
           seen1 == [interp EXCEPT !.rs = rs1, !.st.locals = rs1.locals,
                                   !.resolved = TRUE]
       IN interp' = IF AfterResolve(rs1.err) = "execute"
                    THEN [seen1 EXCEPT !.ph = "execute", !.si = 1]
                    ELSE [seen1 EXCEPT
                            !.failed = "resolve",
                            !.ph = IF interp.mode = "prompt" THEN "prompt" ELSE "exit",
                            !.code = IF interp.mode = "prompt" THEN 0
                                    ELSE ExitStatus("resolve")]
    /\ UNCHANGED poolVars

\* One turn of the loop of Executor::execute on the unit's statements, in the
\* executor's own environment.  A panic ends the process, a wait that nothing
\* ends hangs it.
ExecuteStep ==
    /\ interp.ph = "execute"
    /\ interp.si <= Len(interp.unit.stmts)
    /\ LET r == eval_statement(interp.unit.stmts[interp.si], 1, interp.st)
           ran1 == [interp EXCEPT !.st = r.st, !.ran = @ + 1, !.si = @ + 1]
       IN interp' =
            IF r.res.ok
            THEN IF interp.si = Len(interp.unit.stmts)
                 THEN [ran1 EXCEPT !.ph = Finished, !.code = ExitStatus("none")]
                 ELSE ran1
            ELSE IF r.res.err = "panic" THEN [ran1 EXCEPT !.ph = "panicked", !.code = 101]
            ELSE IF r.res.err = "blocked" THEN [ran1 EXCEPT !.ph = "hung"]
            ELSE [ran1 EXCEPT
                    !.failed = "execute",
                    !.err = r.res.err,
                    !.ph = IF interp.mode = "prompt" THEN "prompt" ELSE "exit",
                    !.code = IF interp.mode = "prompt" THEN 0
                            ELSE ExitStatus("execute")]
    /\ UNCHANGED poolVars

NextInterp ==
    \/ \E u \in Units : ReadUnit(u)
    \/ ReadMissing
    \/ ScanStep
    \/ ParseStep
    \/ ResolveStep
    \/ ExecuteStep

SpecInterp == InitInterp /\ [][NextInterp]_vars

\* ------------------------------------------------------------------------
\* Scripts: main run with the path of one file
\* ------------------------------------------------------------------------
\* The operands of the scripts that apply one binary operator: a literal of
\* each LoxLiteral, or the function f
Operands ==
    {ELit(v) : v \in 1..MaxVal} \cup {EStr("a"), EStr("b"), EBool(TRUE), EBool(FALSE), ENil}
    \cup {EVar(81, "f")}
BinaryOperators == {"*", "/", "-", "+", "==", "!=", ">", ">=", "<", "<="}

\* fun f() { } print <l> <op> <r>;
BinaryUnit(l, op, r) ==
    Unit(<<SFunction(12, "f", <<>>, SBlock(13, <<>>)), SPrint(EBin(l, op, r))>>)

\* The values the functions of a LogicalUnit return
Returned == {EBool(TRUE), EBool(FALSE), ENil, ELit(1)}

\* fun a() { print "a"; return <va>; } fun b() { print "b"; return <vb>; }
\* print a() <op> b();
LogicalUnit(va, op, vb) ==
    Unit(<<SFunction(14, "a", <<>>, SBlock(15, <<SPrint(EStr("a")), SReturn(va)>>)),
           SFunction(16, "b", <<>>, SBlock(17, <<SPrint(EStr("b")), SReturn(vb)>>)),
           SPrint(ELogical(ECall(EVar(82, "a"), <<>>), op, ECall(EVar(83, "b"), <<>>)))>>)

\* fun sum(n, acc) { if (n < 1) return acc; return sum(n - 1, acc + n); }
\* print sum(k, 0);
TailUnit(k) ==
    Unit(<<SFunction(18, "sum", <<"n", "acc">>,
             SBlock(19, <<SIf(EBin(EVar(84, "n"), "<", ELit(1)), SReturn(EVar(85, "acc"))),
                          SReturn(ECall(EVar(86, "sum"),
                                        <<EBin(EVar(87, "n"), "-", ELit(1)),
                                          EBin(EVar(88, "acc"), "+", EVar(89, "n"))>>))>>)),
           SPrint(ECall(EVar(90, "sum"), <<ELit(k), ELit(0)>>))>>)

\* The argument lists of 0, 1 and 2 expressions, the first one being e
ArgumentList(n, e) == IF n = 0 THEN <<>> ELSE IF n = 1 THEN <<e>> ELSE <<e, ELit(1)>>

\* fun f(a) { if (a < 1) return a; return f(<tail arguments>); }
\* print f(<direct arguments>);
ArityUnit(direct, tail) ==
    Unit(<<SFunction(20, "f", <<"a">>,
             SBlock(21, <<SIf(EBin(EVar(91, "a"), "<", ELit(1)), SReturn(EVar(92, "a"))),
                          SReturn(ECall(EVar(93, "f"),
                                        ArgumentList(tail, EBin(EVar(94, "a"), "-", ELit(1)))))>>)),
           SPrint(ECall(EVar(95, "f"), ArgumentList(direct, ELit(1))))>>)

\* The classes of the scripts about inheritance, each the subclass of the one
\* before it
ClassNames == <<"A", "B", "C">>

\* m() { print "<name>"; }
PrintsName(i) ==
    SFunction(40 + i, "m", <<>>, SBlock(50 + i, <<SPrint(EStr(ClassNames[i]))>>))

\* t() { super.m(); }
CallsSuper == SFunction(60, "t", <<>>, SBlock(61, <<SExpr(ECall(ESuper(104, "m"), <<>>))>>))

\* class A { m() { print "A"; } } class B < A { m() { print "B"; } }
\* class C < B { m() { print "C"; } }, with t() { super.m(); } added to the
\* class d, then <class r>().t();
SuperUnit(d, r) ==
    Unit([i \in 1..Len(ClassNames) |->
            SClass(30 + i, ClassNames[i],
                   IF i = 1 THEN ENone ELSE EVar(100 + i, ClassNames[i - 1]),
                   <<PrintsName(i)>> \o (IF i = d THEN <<CallsSuper>> ELSE <<>>))]
         \o <<SExpr(ECall(EGet(ECall(EVar(105, ClassNames[r]), <<>>), "t"), <<>>))>>)

\* class A { init() { this.x = 1; } } fun f() { }
\* print f(); print A().x; print A().init().x;
\* with `return;` at the end of init when bare
InitUnit(bare) ==
    Unit(<<SClass(34, "A", ENone,
             <<SFunction(62, "init", <<>>,
                 SBlock(63, <<SExpr(ESet(EThis(106), "x", ELit(1)))>>
                            \o (IF bare THEN <<SReturn(ENone)>> ELSE <<>>)))>>),
           SFunction(64, "f", <<>>, SBlock(65, <<>>)),
           SPrint(ECall(EVar(107, "f"), <<>>)),
           SPrint(EGet(ECall(EVar(108, "A"), <<>>), "x")),
           SPrint(EGet(ECall(EGet(ECall(EVar(109, "A"), <<>>), "init"), <<>>), "x"))>>)

\* A method of no parameter that returns e
Returns(tag, name, e) == SFunction(tag, name, <<>>, SBlock(tag + 1, <<SReturn(e)>>))

\* class A { m() { return "A.m"; } n() { return "A.n"; } who() { return this.x; } }
\* class B < A { m() { return "B.m"; } }  class C < B { }  var a = C();
PropertyClasses ==
    <<SClass(35, "A", ENone, <<Returns(66, "m", EStr("A.m")), Returns(68, "n", EStr("A.n")),
                               Returns(70, "who", EGet(EThis(110), "x"))>>),
      SClass(36, "B", EVar(111, "A"), <<Returns(72, "m", EStr("B.m"))>>),
      SClass(37, "C", EVar(112, "B"), <<>>),
      SVar("a", ECall(EVar(113, "C"), <<>>))>>

\* What each script about properties does after the classes
PropertyCases ==
    [field |-> <<SExpr(ESet(EVar(114, "a"), "m", ELit(1))),         \* a.m = 1;
                 SPrint(EGet(EVar(115, "a"), "m"))>>,               \* print a.m;
     nearest |-> <<SPrint(ECall(EGet(EVar(114, "a"), "m"), <<>>))>>,      \* print a.m();
     inherited |-> <<SPrint(ECall(EGet(EVar(114, "a"), "n"), <<>>))>>,    \* print a.n();
     bound |-> <<SExpr(ESet(EVar(114, "a"), "x", ELit(2))),         \* a.x = 2;
                 SPrint(ECall(EGet(EVar(115, "a"), "who"), <<>>))>>,      \* print a.who();
     missing |-> <<SPrint(EGet(EVar(114, "a"), "y"))>>,             \* print a.y;
     getOfString |-> <<SPrint(EGet(EStr("s"), "x"))>>,              \* print "s".x;
     setOfString |-> <<SExpr(ESet(EStr("s"), "x", ELit(1)))>>,      \* "s".x = 1;
     shared |-> <<SVar("b", EVar(114, "a")),                        \* var b = a;
                  SExpr(ESet(EVar(115, "b"), "x", ELit(3))),        \* b.x = 3;
                  SPrint(EGet(EVar(116, "a"), "x"))>>,              \* print a.x;
     other |-> <<SVar("b", ECall(EVar(114, "C"), <<>>)),            \* var b = C();
                 SExpr(ESet(EVar(115, "b"), "m", ELit(3))),         \* b.m = 3;
                 SPrint(ECall(EGet(EVar(116, "a"), "m"), <<>>)),    \* print a.m();
                 SPrint(EGet(EVar(117, "a"), "x"))>>]               \* print a.x;

PropertyUnit(case) == Unit(PropertyClasses \o PropertyCases[case])

\* print "in"; 1 - "s"; print "after";      a body whose second statement fails
FaultyBody(tag) ==
    SBlock(tag, <<SPrint(EStr("in")), SExpr(EBin(ELit(1), "-", EStr("s"))),
                  SPrint(EStr("after"))>>)

ErrorKinds == {"function", "nested", "method", "init"}

\* fun f() { <faulty> } f(); print "next";
\* fun g() { <faulty> } fun f() { g(); print "after"; } f(); print "next";
\* class A { m() { <faulty> } } A().m(); print "next";
\* class A { init() { <faulty> } } A(); print "next";
ErrorUnit(kind) ==
    Unit((CASE kind = "function" ->
                <<SFunction(80, "f", <<>>, FaultyBody(81)),
                  SExpr(ECall(EVar(120, "f"), <<>>))>>
            [] kind = "nested" ->
                <<SFunction(82, "g", <<>>, FaultyBody(83)),
                  SFunction(84, "f", <<>>,
                            SBlock(85, <<SExpr(ECall(EVar(121, "g"), <<>>)),
                                         SPrint(EStr("after"))>>)),
                  SExpr(ECall(EVar(122, "f"), <<>>))>>
            [] kind = "method" ->
                <<SClass(86, "A", ENone, <<SFunction(87, "m", <<>>, FaultyBody(88))>>),
                  SExpr(ECall(EGet(ECall(EVar(123, "A"), <<>>), "m"), <<>>))>>
            [] OTHER ->
                <<SClass(89, "A", ENone, <<SFunction(90, "init", <<>>, FaultyBody(91))>>),
                  SExpr(ECall(EVar(124, "A"), <<>>))>>)
         \o <<SPrint(EStr("next"))>>)

\* return 1;   or   return;
ReturnOf(valued) == SReturn(IF valued THEN ELit(1) ELSE ENone)

\* print 1; return ..;            print 1; { return ..; }
\* print 1; class A { init() { return 1; } }
ReturnPlaces == {"top", "block"}
MisplacedReturnUnit(place, valued) ==
    Unit(<<SPrint(ELit(1)),
           IF place = "top" THEN ReturnOf(valued) ELSE SBlock(92, <<ReturnOf(valued)>>)>>)
InitReturnUnit ==
    Unit(<<SPrint(ELit(1)),
           SClass(93, "A", ENone, <<SFunction(94, "init", <<>>, SBlock(95, <<ReturnOf(TRUE)>>))>>)>>)

\* What the superclass variable holds, and the declaration that binds it
SuperKinds == {"none", "class", "number", "string", "nil", "instance", "function"}
SuperName(kind) ==
    CASE kind = "class" -> "A" [] kind = "number" -> "n" [] kind = "string" -> "b"
      [] kind = "nil" -> "q" [] kind = "instance" -> "a" [] OTHER -> "f"
SuperDecl(kind) ==
    CASE kind = "number" -> <<SVar("n", ELit(1))>>
      [] kind = "string" -> <<SVar("b", EStr("s"))>>
      [] kind = "nil" -> <<SVar("q", ENone)>>
      [] kind = "instance" -> <<SVar("a", ECall(EVar(130, "A"), <<>>))>>
      [] kind = "function" -> <<SFunction(96, "f", <<>>, SBlock(97, <<>>))>>
      [] OTHER -> <<>>

\* class A { }  <declaration of s>  class B < s { }  print "next";
\* (class B { } for the kind none)
InheritUnit(kind) ==
    Unit(<<SClass(98, "A", ENone, <<>>)>> \o SuperDecl(kind)
         \o <<SClass(99, "B", IF kind = "none" THEN ENone ELSE EVar(131, SuperName(kind)),
                     <<>>),
              SPrint(EStr("next"))>>)

\* var g; { var x = 1; { fun f() { return x = 2; } print f(); print x; } }
\* var g; { var x = 1; { fun f() { return x = 2; } g = f; } } print g();
\* The assignment is resolved three scopes up; called through g at top level
\* it has two environments above it.
AssignFromUnit(far) ==
    Unit(<<SVar("g", ENone),
           SBlock(26, <<SVar("x", ELit(1)),
                        SBlock(27,
                               <<SFunction(28, "f", <<>>,
                                     SBlock(29, <<SReturn(EAssign(132, "x", ELit(2)))>>))>>
                               \o (IF far THEN <<SExpr(EAssign(133, "g", EVar(134, "f")))>>
                                   ELSE <<SPrint(ECall(EVar(135, "f"), <<>>)),
                                          SPrint(EVar(136, "x"))>>))>>)>>
         \o (IF far THEN <<SPrint(ECall(EVar(137, "g"), <<>>))>> ELSE <<>>))

\* Arguments whose to_string coincide in pairs: 1 and "1", nil and "nil"
MemoArguments == {ELit(1), EStr("1"), ENil, EStr("nil")}

\* fun f(a) { print "run"; return a == <first>; } print f(<first>); print f(<second>);
MemoUnit(first, second) ==
    Unit(<<SFunction(18, "f", <<"a">>,
             SBlock(19, <<SPrint(EStr("run")),
                          SReturn(EBin(EVar(140, "a"), "==", first))>>)),
           SPrint(ECall(EVar(141, "f"), <<first>>)),
           SPrint(ECall(EVar(142, "f"), <<second>>))>>)

\* var x = 1;
\* { var x = 2; { print x; { var q; print x; } } print x; }
\* print x; print h;
\* Four references to x, each with its own token, and one to a name that no
\* scope holds.
ScopeUnit ==
    Unit(<<SVar("x", ELit(1)),
           SBlock(12, <<SVar("x", ELit(2)),
                        SBlock(13, <<SPrint(EVar(150, "x")),
                                     SBlock(14, <<SVar("q", ENone),
                                                  SPrint(EVar(151, "x"))>>)>>),
                        SPrint(EVar(152, "x"))>>),
           SPrint(EVar(153, "x")),
           SPrint(EVar(154, "h"))>>)

\* var n; fun h() { return n; }      n is resolved two scopes up, so that h
\* called below the top level finds no n there: the worker that evaluates
\* `var x = h();` in a block or in a function body never completes, and x
\* stays Pending
NeverReady ==
    <<SVar("n", ENone),
      SFunction(74, "h", <<>>, SBlock(75, <<SReturn(EVar(160, "n"))>>))>>

IsReadyCases == {"ready", "rvalue", "pending", "shadowed", "unresolved"}

\* ready:       await var x = 1; print is_ready x;
\* rvalue:      print is_ready 1;
\* pending:     <NeverReady> { var x = h(); print is_ready x; }
\* shadowed:    var x; <NeverReady>
\*              fun g() { fun f() { return <e>; } var x = h(); print f(); } g();
\* unresolved:  fun f() { return <e>; } { await var x = 1; print f(); }
\* with e either `is_ready x` or the read `x` of the same reference
IsReadyUnit(case, e) ==
    Unit(CASE case = "ready" -> <<SAwaitVar("x", ELit(1)), SPrint(e)>>
           [] case = "rvalue" -> <<SPrint(EUnary("IsReady", ELit(1)))>>
           [] case = "pending" ->
                NeverReady
                \o <<SBlock(76, <<SVar("x", ECall(EVar(161, "h"), <<>>)), SPrint(e)>>)>>
           [] case = "shadowed" ->
                <<SVar("x", ENone)>> \o NeverReady
                \o <<SFunction(77, "g", <<>>,
                        SBlock(78, <<SFunction(79, "f", <<>>, SBlock(15, <<SReturn(e)>>)),
                                     SVar("x", ECall(EVar(162, "h"), <<>>)),
                                     SPrint(ECall(EVar(163, "f"), <<>>))>>)),
                     SExpr(ECall(EVar(164, "g"), <<>>))>>
           [] OTHER ->
                <<SFunction(79, "f", <<>>, SBlock(15, <<SReturn(e)>>)),
                  SBlock(76, <<SAwaitVar("x", ELit(1)),
                               SPrint(ECall(EVar(163, "f"), <<>>))>>)>>)

IsReadyOf == EUnary("IsReady", EVar(165, "x"))
ReadOf == EVar(165, "x")

\* The callables that take one parameter
CallableKinds == {"function", "method", "lambda"}

\* print <p>; print x;       the body of each; the method, which has the scope
\* of `this` around it as well, prints p only
ParamBody(tag, id, p, outer) ==
    SBlock(tag, <<SPrint(EVar(id, p))>>
                \o (IF outer THEN <<SPrint(EVar(id + 1, "x"))>> ELSE <<>>))

\* var x = 1; var a = 2;
\* fun f(p) { print p; print x; } f(3);                         print a;
\* class A { f(p) { print p; } } A().f(3);                      print a;
\* var f = fun (p) { print p; print x; }; f(3);                 print a;
\* with the parameter p named a, as the variable, or b, as nothing else
ParamUnit(kind, p) ==
    Unit(<<SVar("x", ELit(1)), SVar("a", ELit(2))>>
         \o (CASE kind = "function" ->
                    <<SFunction(100, "f", <<p>>, ParamBody(101, 170, p, TRUE)),
                      SExpr(ECall(EVar(172, "f"), <<ELit(3)>>))>>
               [] kind = "method" ->
                    <<SClass(102, "A", ENone,
                             <<SFunction(103, "f", <<p>>, ParamBody(104, 173, p, FALSE))>>),
                      SExpr(ECall(EGet(ECall(EVar(175, "A"), <<>>), "f"), <<ELit(3)>>))>>
               [] OTHER ->
                    <<SVar("f", ELambda(105, <<p>>, ParamBody(106, 176, p, TRUE))),
                      SExpr(ECall(EVar(178, "f"), <<ELit(3)>>))>>)
         \o <<SPrint(EVar(179, "a"))>>)

\* fun f(a) { var x = 1; { var x = 2; { var b = a + x; return b + x; } } }
\* print f(1);        the return expression reads b and the nearest x, which
\* only the innermost block's environment reaches
NestedReturnUnit ==
    Unit(<<SFunction(107, "f", <<"a">>,
             SBlock(108, <<SVar("x", ELit(1)),
                           SBlock(109, <<SVar("x", ELit(2)),
                                         SBlock(110,
                                                <<SVar("b", EBin(EVar(180, "a"), "+",
                                                                 EVar(181, "x"))),
                                                  SReturn(EBin(EVar(182, "b"), "+",
                                                               EVar(183, "x")))>>)>>)>>)),
           SPrint(ECall(EVar(184, "f"), <<ELit(1)>>))>>)

\* fun f() {
\*   fun h() { return 1; }
\*   fun g() { print 7; return h; }     (or `return 2;`, which is not callable)
\*   return g()();
\* }
\* print f();             the callee g() of the returned call prints when evaluated
ReturnedCallUnit(callable) ==
    Unit(<<SFunction(111, "f", <<>>,
             SBlock(112,
                <<SFunction(113, "h", <<>>, SBlock(114, <<SReturn(ELit(1))>>)),
                  SFunction(115, "g", <<>>,
                     SBlock(116, <<SPrint(ELit(7)),
                                   SReturn(IF callable THEN EVar(185, "h") ELSE ELit(2))>>)),
                  SReturn(ECall(ECall(EVar(186, "g"), <<>>), <<>>))>>)),
           SPrint(ECall(EVar(187, "f"), <<>>))>>)

\* class A { m() { print "A"; } }
\* class B < A { m() { print "B"; } t(a) { a.who(); super.m(); } }
\* class C < B { m() { print "C"; } who() { } }
\* B().t(C());        a method call on another instance before the use of super
ReceiverUnit ==
    Unit(<<SClass(117, "A", ENone, <<PrintsName(1)>>),
           SClass(118, "B", EVar(188, "A"),
                  <<PrintsName(2),
                    SFunction(119, "t", <<"a">>,
                       SBlock(120, <<SExpr(ECall(EGet(EVar(189, "a"), "who"), <<>>)),
                                     SExpr(ECall(ESuper(190, "m"), <<>>))>>))>>),
           SClass(121, "C", EVar(191, "B"),
                  <<PrintsName(3), SFunction(122, "who", <<>>, SBlock(123, <<>>))>>),
           SExpr(ECall(EGet(ECall(EVar(192, "B"), <<>>), "t"),
                       <<ECall(EVar(193, "C"), <<>>)>>))>>)

Scripts ==
    {BinaryUnit(l, op, r) : l \in Operands, op \in BinaryOperators, r \in Operands}
    \cup {LogicalUnit(va, op, vb) : va \in Returned, op \in {"or", "and"}, vb \in Returned}
    \cup {TailUnit(k) : k \in 0..MaxTail}
    \cup {ArityUnit(direct, tail) : direct \in 0..2, tail \in 0..2}
    \cup {SuperUnit(d, r) : d \in 1..Len(ClassNames), r \in 1..Len(ClassNames)}
    \cup {InitUnit(bare) : bare \in BOOLEAN}
    \cup {PropertyUnit(case) : case \in DOMAIN PropertyCases}
    \cup {ErrorUnit(kind) : kind \in ErrorKinds}
    \cup {MisplacedReturnUnit(place, valued) : place \in ReturnPlaces, valued \in BOOLEAN}
    \cup {InitReturnUnit}
    \cup {InheritUnit(kind) : kind \in SuperKinds}
    \cup {AssignFromUnit(far) : far \in BOOLEAN}
    \cup {MemoUnit(first, second) : first \in MemoArguments, second \in MemoArguments}
    \cup {ScopeUnit}
    \cup {IsReadyUnit(case, e) : case \in IsReadyCases, e \in {IsReadyOf, ReadOf}}
    \cup {ParamUnit(kind, p) : kind \in CallableKinds, p \in {"a", "b"}}
    \cup {NestedReturnUnit}
        \cup {ReturnedCallUnit(callable) : callable \in BOOLEAN}
        \cup {ReceiverUnit}

InitScripts ==
    /\ envs = <<NewEnv(0)>>
    /\ scopes = <<NewScope(0)>>
    /\ queue = <<>>
    /\ wk = [w \in Workers |-> IdleWorker]
    /\ mn = IdleMain
    /\ lines = 0
    /\ decls = <<>>
    /\ evalRes = <<>>
    /\ lastRead = [t \in Threads |-> NoRead]
    /\ dead = {}
    /\ interp = StartInterp("file")

NextScripts ==
    \/ \E u \in Scripts : ReadUnit(u)
    \/ ReadMissing
    \/ ScanStep
    \/ ParseStep
    \/ ResolveStep
    \/ ExecuteStep

SpecScripts == InitScripts /\ [][NextScripts]_vars

\* ------------------------------------------------------------------------
\* PackagedObject::wait_for_value on one cell of a map, and the cell's producer
\* ------------------------------------------------------------------------
MaxStack == 3       \* frames of wait_for_value the caller's stack holds
MaxCalls == 2       \* calls of wait_for_value the caller makes

WaitResults == {Ok(NumObj(v)) : v \in 1..MaxVal} \cup {TypeError}

\* The cell in the map (slot); the caller, who has the Ref of the cell from
\* lookup_variable while it is in wait_for_value (held), its place in the
\* function, the frames on its stack, the calls it has finished and what the
\* last one returned; the producer's place in the worker closure of put and
\* the value it evaluated.  loops: the build turns the call in tail position
\* into a jump.
WaitState(slot, loops) ==
    [ph |-> "wait_for_value", slot |-> slot, loops |-> loops,
     pc |-> "idle", held |-> FALSE, depth |-> 0, calls |-> 0, got |-> NoRes,
     prod |-> IF slot.st = "Pending" THEN "eval" ELSE "done", val |-> slot.res]

InitWait ==
    /\ envs = <<NewEnv(0)>>
    /\ scopes = <<NewScope(0)>>
    /\ queue = <<>>
    /\ wk = [w \in Workers |-> IdleWorker]
    /\ mn = IdleMain
    /\ lines = 0
    /\ decls = <<>>
    /\ evalRes = <<>>
    /\ lastRead = [t \in Threads |-> NoRead]
    /\ dead = {}
    /\ interp \in {WaitState(slot, loops) :
                        slot \in {Pending(1)} \cup {Ready(r, 1) : r \in WaitResults},
                        loops \in BOOLEAN}

\* pair.wait_for_value() on the Ref that lookup_variable returned
WaitCall ==
    /\ interp.pc = "idle"
    /\ interp.calls < MaxCalls
    /\ interp' = [interp EXCEPT !.pc = "match", !.held = TRUE, !.depth = 1]
    /\ UNCHANGED poolVars

\* `match self`: Ready(val) => val;  Pending(mtx, cvar) => mtx.lock()
WaitMatch ==
    /\ interp.pc = "match"
    /\ interp' = IF interp.slot.st = "Ready"
                 THEN [interp EXCEPT !.pc = "returned", !.got = interp.slot.res]
                 ELSE [interp EXCEPT !.pc = "locked"]
    /\ UNCHANGED poolVars

\* cvar.wait_while(res, |pending| !*pending): through at once when the flag is
\* set, otherwise the mutex is released and the caller sleeps
WaitWhile ==
    /\ interp.pc = "locked"
    /\ interp' = [interp EXCEPT !.pc = IF interp.slot.flag THEN "again" ELSE "asleep"]
    /\ UNCHANGED poolVars

\* notify_all with the flag set ends the wait_while
WaitWoken ==
    /\ interp.pc = "asleep"
    /\ interp.slot.flag
    /\ interp' = [interp EXCEPT !.pc = "again"]
    /\ UNCHANGED poolVars

\* self.wait_for_value() on the same &self: one more frame, or the same frame
\* when the build loops; the stack overflows beyond MaxStack frames
WaitAgain ==
    /\ interp.pc = "again"
    /\ interp' = IF interp.loops THEN [interp EXCEPT !.pc = "match"]
                 ELSE IF interp.depth < MaxStack
                      THEN [interp EXCEPT !.pc = "match", !.depth = @ + 1]
                 ELSE [interp EXCEPT !.pc = "overflow"]
    /\ UNCHANGED poolVars

\* The caller has used the result and drops the Ref
WaitReturn ==
    /\ interp.pc = "returned"
    /\ interp' = [interp EXCEPT !.pc = "idle", !.held = FALSE, !.depth = 0,
                                !.calls = @ + 1]
    /\ UNCHANGED poolVars

\* The worker closure of put: the initializer is evaluated
ProducerEval ==
    /\ interp.prod = "eval"
    /\ \E r \in WaitResults : interp' = [interp EXCEPT !.prod = "mark", !.val = r]
    /\ UNCHANGED poolVars

\* `*mtx.lock().unwrap() = true; cdv.notify_all();` while the caller does not
\* hold the mutex
ProducerMark ==
    /\ interp.prod = "mark"
    /\ interp.pc # "locked"
    /\ interp' = [interp EXCEPT !.slot.flag = TRUE, !.prod = "insert"]
    /\ UNCHANGED poolVars

\* environment.values.insert(key, Ready(value)): the write lock of the entry,
\* which no Ref may hold
ProducerInsert ==
    /\ interp.prod = "insert"
    /\ ~interp.held
    /\ interp' = [interp EXCEPT !.slot = Ready(interp.val, 1), !.prod = "done"]
    /\ UNCHANGED poolVars

Caller == WaitCall \/ WaitMatch \/ WaitWhile \/ WaitWoken \/ WaitAgain \/ WaitReturn
Producer == ProducerEval \/ ProducerMark \/ ProducerInsert

NextWait ==
    \/ WaitCall
    \/ WaitMatch
    \/ WaitWhile
    \/ WaitWoken
    \/ WaitAgain
    \/ WaitReturn
    \/ ProducerEval
    \/ ProducerMark
    \/ ProducerInsert

\* Both threads are scheduled for as long as they can take a step
SpecWait == InitWait /\ [][NextWait]_vars /\ WF_vars(Caller) /\ WF_vars(Producer)

\* ------------------------------------------------------------------------
\* Claims about scopes, calls and the run pipeline
\* ------------------------------------------------------------------------
\* C6: every variable reference the resolver recorded at distance d reaches,
\* each time it is evaluated, the environment made for the scope the resolver
\* found the declaration in, whatever the call site and whatever same-named
\* variables the scopes in between declare.
C6_LookupReachesResolvedScope == interp.st.misses = {}

RECURSIVE Fib(_)
Fib(n) == IF n < 2 THEN n ELSE Fib(n - 1) + Fib(n - 2)

\* The script of fib(k) has run its two statements
FibRan(k) == interp.typed = 1 /\ interp.unit = FibUnit(k) /\ interp.ran = 2

\* C7: every call of a user function binds the parameters in a new environment
\* whose parent is the environment the function was declared in, so that
\* fib(k) prints the k-th Fibonacci number for every k in 0..MaxFib.
C7_CallEnvironmentIsClosure ==
    /\ interp.st.dyn = {}
    /\ \A k \in 0..MaxFib :
          FibRan(k) => interp.st.out = <<ToString(Fib(k))>>

\* The shadowing unit has run its block, which declared x again
ShadowRan(k, v) == interp.unit = ShadowUnit(k, v) /\ interp.ran >= 2

\* C8: a declaration in a block's child environment changes only that
\* environment's own map, a block leaves every binding of its names in the
\* environments that existed before it as it was, and after the block the
\* executor's environment holds the outer binding again.
C8_ShadowingLeavesOuterScopes ==
    /\ interp.st.frame
    /\ \A k \in {"Var", "AwaitVar"} : \A v \in 1..MaxVal :
          ShadowRan(k, v) =>
              /\ get(interp.st.envs, 1, "x") = 1
              /\ interp.st.envs[1].values["x"] = Ready(Ok(NumObj(v)), 0)

\* `var x = v; { var x = v + 1; print x; } print x;` printed v + 1, then v
C8_Witness ==
    /\ ShadowRan("Var", 1)
    /\ interp.ran = 3
    /\ interp.st.out = <<"2", "1">>

\* The expression reads the variable name
RECURSIVE Reads(_, _)
Reads(x, name) ==
    \/ x.k = "Variable" /\ x.name = name
    \/ \E i \in 1..Len(x.args) : Reads(x.args[i], name)

\* Some declaration among the statements, or inside their blocks and
\* functions, has an initializer that reads the variable being declared
RECURSIVE HasSelfInitializer(_)
HasSelfInitializer(statements) ==
    \E i \in 1..Len(statements) :
        \/ /\ statements[i].k \in {"Var", "AwaitVar"}
           /\ Reads(statements[i].e, statements[i].name)
        \/ HasSelfInitializer(statements[i].body)

\* C9: a unit with a declaration whose initializer reads the variable being
\* declared is rejected by the resolver with a ParseError, and none of its
\* statements is executed.
C9_SelfInitializerRejected ==
    (interp.resolved /\ HasSelfInitializer(interp.unit.stmts)) =>
        /\ interp.rs.err = "ParseError"
        /\ interp.failed = "resolve"
        /\ interp.ran = 0

\* `{ var x = 1 + x; }` has been through the resolver
C9_Witness ==
    /\ interp.resolved
    /\ interp.unit.stmts[1].k = "Block"
    /\ HasSelfInitializer(interp.unit.stmts)
    /\ interp.rs.err = "ParseError"

\* Since the unit was read, no environment, callable or output has changed
Untouched ==
    /\ interp.st.envs = interp.snap.envs
    /\ interp.st.funs = interp.snap.funs
    /\ interp.st.out = interp.snap.out

\* C10: no statement of a unit is executed before the scanner, the parser and
\* the resolver have all returned Ok for the whole unit; when one of them
\* returns an error, no statement of the unit is executed and the environment
\* is as it was.
C10_ResolveThenExecute ==
    /\ interp.ran > 0 =>
          /\ interp.unit.lex = "ok" /\ interp.unit.syn = "ok"
          /\ interp.resolved /\ interp.rs.err = "none"
    /\ interp.ph \in {"scan", "parse", "resolve"} => interp.ran = 0 /\ Untouched
    /\ interp.failed \in {"scan", "parse", "resolve"} => interp.ran = 0 /\ Untouched

\* `print 1; return 1;` typed after x was bound: rejected by the resolver with
\* nothing printed
C10_Witness ==
    /\ interp.unit = TopReturnUnit
    /\ interp.failed = "resolve"
    /\ interp.ran = 0
    /\ interp.snap.envs[1].values["x"].st = "Ready"

\* ------------------------------------------------------------------------
\* Claims about the exit status, operators, classes and calls
\* ------------------------------------------------------------------------
\* The step of a script's run that returned an error, if any
RunFailed == interp.failed \in {"scan", "parse", "resolve", "execute"}

\* C15 as claimed: the script runner exits with one non-zero status when the
\* script cannot be read and with another non-zero status when scanning,
\* parsing, resolving or executing it fails, and with 0 after a successful run.
C15_TwoFailureStatuses ==
    interp.ph = "exit" =>
        /\ interp.failed = "none" => interp.code = 0
        /\ interp.failed = "read" => interp.code # 0
        /\ RunFailed => interp.code # 0 /\ interp.code # ExitStatus("read")

\* C15 amended: the script runner exits with the same non-zero status, 65,
\* when the script cannot be read and when scanning, parsing, resolving or
\* executing it returns an error, and with 0 after a successful run.
C15_OneFailureStatus ==
    interp.ph = "exit" =>
        /\ interp.failed = "none" => interp.code = 0
        /\ interp.failed = "read" => interp.code = 65
        /\ RunFailed => interp.code = 65

\* The script was missing and main has exited
C15_Witness ==
    /\ interp.mode = "file" /\ interp.ph = "exit"
    /\ interp.failed = "read" /\ interp.code = 65

\* The main thread returns from a plain `var n = e;`, from `var n;` and from
\* `await var n = e;`
VarReturns == mn.pc = "put" /\ mn'.pc = "prompt"
BareVarReturns == mn.pc = "imm" /\ mn.expr.k = "nil" /\ mn'.pc = "prompt"
AwaitVarReturns == mn.pc = "imm" /\ mn.expr.k = "lit" /\ mn'.pc = "prompt"

\* C17 as claimed: when a plain Var statement returns, its name is bound to a
\* Ready cell in the current environment and no worker task was scheduled.
C17_VarIsSynchronous ==
    [][(VarReturns \/ BareVarReturns) =>
          /\ envs'[1].values[mn.name].st = "Ready"
          /\ queue' = queue]_vars

\* C17 amended: a plain Var statement with an initializer binds a Pending cell
\* for the name, hands the unevaluated initializer to the worker pool as one
\* task and returns; a Var statement without initializer binds Ready(Nil) on
\* the current thread and schedules nothing.
C17_VarIsDeferred ==
    [][/\ VarReturns =>
            /\ envs'[1].values[mn.name] = Pending(Len(decls'))
            /\ evalRes'[Len(decls')] = NoRes
            /\ Len(queue') = Len(queue) + 1
            /\ queue'[Len(queue')].expr = mn.expr
            /\ queue'[Len(queue')].key = mn.name
       /\ BareVarReturns =>
            /\ envs'[1].values[mn.name] = Ready(Ok(NilObj), Len(decls'))
            /\ queue' = queue]_vars

\* `var x = <e>;` has just returned: x is Pending and its task is queued
C17_Witness ==
    /\ mn.pc = "prompt"
    /\ decls # <<>>
    /\ decls[Len(decls)].kind = "put"
    /\ envs[1].values[decls[Len(decls)].name] = Pending(Len(decls))
    /\ queue # <<>>
    /\ queue[Len(queue)].d = Len(decls)

OperandType(x) == IF x.k = "Variable" THEN "Callable" ELSE x.name

\* The script `print <l> <op> <r>;` has run to its end, to an error or to a panic
BinaryRan(l, op, r) ==
    /\ interp.unit = BinaryUnit(l, op, r)
    /\ interp.ph \in {"exit", "panicked", "hung"}
    /\ interp.failed \notin {"scan", "parse", "resolve"}

Evaluates == interp.ph = "exit" /\ interp.failed = "none"
IsTypeError == interp.ph = "exit" /\ interp.failed = "execute" /\ interp.err = "TypeError"

\* The operators whose operands must both be numbers
NumberOnly == {"*", "/", "-", ">", ">=", "<", "<="}

\* C14 as claimed: `-`, `*`, `/`, `>`, `>=`, `<`, `<=` are a TypeError whenever
\* an operand is not a Number; `+` evaluates only for Number + Number and
\* String + String and is a TypeError for every other pair of operand types;
\* no pair of operand types panics.
C14_OperandTypeContract ==
    \A l \in Operands : \A r \in Operands :
        LET numbers == OperandType(l) = "Number" /\ OperandType(r) = "Number"
            strings == OperandType(l) = "LoxString" /\ OperandType(r) = "LoxString"
        IN /\ \A op \in NumberOnly :
                BinaryRan(l, op, r) => IF numbers THEN Evaluates ELSE IsTypeError
           /\ BinaryRan(l, "+", r) =>
                IF numbers \/ strings THEN Evaluates ELSE IsTypeError

\* C14 amended: `-`, `*`, `/`, `>`, `>=`, `<`, `<=` are a TypeError whenever an
\* operand is not a Number; `+` adds two Numbers, appends to a String on the
\* left the string form of the right operand whatever its type, and is a
\* TypeError for every other pair of operand types; no pair panics.
C14_StringPlusAnything ==
    \A l \in Operands : \A r \in Operands :
        LET numbers == OperandType(l) = "Number" /\ OperandType(r) = "Number"
        IN /\ \A op \in NumberOnly :
                BinaryRan(l, op, r) => IF numbers THEN Evaluates ELSE IsTypeError
           /\ BinaryRan(l, "+", r) =>
                IF numbers
                THEN Evaluates /\ interp.st.out = <<ToString(l.v + r.v)>>
                ELSE IF OperandType(l) = "LoxString"
                THEN /\ Evaluates
                     /\ interp.st.out =
                          <<l.s \o to_string(interp.st,
                                             IF r.k = "Variable" THEN CallableObj(1)
                                             ELSE Literal(r))>>
                ELSE IsTypeError

\* `print "a" + 1;` printed a1
C14_Witness ==
    /\ BinaryRan(EStr("a"), "+", ELit(1))
    /\ Evaluates
    /\ interp.st.out = <<"a1">>

\* The script of `a() <op> b()` has run to its end
LogicalRan(va, op, vb) ==
    /\ interp.unit = LogicalUnit(va, op, vb)
    /\ interp.ph = "exit"
    /\ interp.failed = "none"

\* The left operand alone decides `va <op> ..`
Decides(op, va) == (op = "or") = Truthy(Literal(va))

\* C16: `a or b` and `a and b` evaluate a first; when a decides (truthy for or,
\* falsy for and) its value is the result and b is never evaluated; otherwise b
\* is evaluated after a and its value is the result.
C16_LogicalShortCircuitsOnLeft ==
    \A va \in Returned : \A vb \in Returned : \A op \in {"or", "and"} :
        LogicalRan(va, op, vb) =>
            interp.st.out =
                IF Decides(op, va) THEN <<"a", to_string(interp.st, Literal(va))>>
                ELSE <<"a", "b", to_string(interp.st, Literal(vb))>>

\* The script has stopped: main has exited, or the process panicked or hangs
Stopped(u) == interp.unit = u /\ interp.ph \in {"exit", "panicked", "hung"}

\* The number of environments on the chain from e to the root
RECURSIVE ChainLength(_, _)
ChainLength(E, e) == IF E[e].enclosing = 0 THEN 1 ELSE 1 + ChainLength(E, E[e].enclosing)

\* 0 + 1 + .. + k
RECURSIVE SumTo(_)
SumTo(k) == IF k = 0 THEN 0 ELSE k + SumTo(k - 1)

\* C11: a self call in return position runs inside the same invocation of
\* call: whatever the number k of tail iterations, one call is in progress at
\* most, no environment is deeper than root, call and body block (with the
\* overlay of a re-bound parameter), and the result is that of the recursive
\* definition.
C11_TailCallsIterate ==
    \A k \in 0..MaxTail :
        Stopped(TailUnit(k)) =>
            /\ interp.ph = "exit" /\ interp.failed = "none"
            /\ interp.st.out = <<ToString(SumTo(k))>>
            /\ interp.st.maxdepth = 1
            /\ interp.st.depth = 0
            /\ \A e \in 1..Len(interp.st.envs) : ChainLength(interp.st.envs, e) <= 3

\* sum(MaxTail, 0) went MaxTail times round the loop and printed the sum
C11_Witness ==
    /\ Stopped(TailUnit(MaxTail))
    /\ interp.st.out = <<ToString(SumTo(MaxTail))>>
    /\ interp.st.maxdepth = 1
    /\ Len(interp.st.envs) > 3 * MaxTail

\* C19: a call with another number of arguments than the arity, made by a call
\* expression or by the tail-call loop, is a RuntimeError and binds no
\* parameter.
C19_ArityCheckedBeforeBinding ==
    \A direct \in 0..2, tail \in 0..2 :
        Stopped(ArityUnit(direct, tail)) /\ (direct # 1 \/ tail # 1) =>
            /\ interp.failed = "execute"
            /\ interp.err = "Wrong number of arguments"
            /\ ~interp.st.misbound

\* C12: super.m() in a method defined in the class d, called on an instance of
\* the class r, d or a subclass of d, runs the m of the class before d,
\* and is a RuntimeError when d has no superclass.
C12_SuperStartsAtDefiningClass ==
    \A d \in 1..Len(ClassNames) : \A r \in d..Len(ClassNames) :
        Stopped(SuperUnit(d, r)) =>
            IF d = 1
            THEN interp.failed = "execute" /\ interp.err = "Undefined property"
                 /\ interp.st.out = <<>>
            ELSE interp.ph = "exit" /\ interp.failed = "none"
                 /\ interp.st.out = <<ClassNames[d - 1]>>

\* What each script about properties prints, and the error it ends with
PropertyOutcomes ==
    [field |-> [out |-> <<"1">>, err |-> "none"],
     nearest |-> [out |-> <<"B.m">>, err |-> "none"],
     inherited |-> [out |-> <<"A.n">>, err |-> "none"],
     bound |-> [out |-> <<"2">>, err |-> "none"],
     missing |-> [out |-> <<>>, err |-> "Undefined property"],
     getOfString |-> [out |-> <<>>, err |-> "Only instances have properties"],
     setOfString |-> [out |-> <<>>, err |-> "Only instances have fields"],
     shared |-> [out |-> <<"3">>, err |-> "none"],
     other |-> [out |-> <<"B.m">>, err |-> "Undefined property"]]

\* C13: a property of an instance is its own field of the name, otherwise the
\* method of the name of the nearest class up its chain, bound to the instance,
\* otherwise a RuntimeError; a property of a value that is no instance is a
\* RuntimeError; Set writes the field table of the instance alone, which every
\* reference to the instance reads.
C13_PropertyAccess ==
    \A case \in DOMAIN PropertyCases :
        Stopped(PropertyUnit(case)) =>
            /\ interp.ph = "exit"
            /\ interp.st.out = PropertyOutcomes[case].out
            /\ interp.err = PropertyOutcomes[case].err
            /\ \A f \in 1..Len(interp.st.funs) :
                    interp.st.funs[f].this # 0 => interp.st.funs[f].this = 1
            /\ \A c \in 1..Len(interp.st.classes) :
                    \A m \in interp.st.classes[c].methods :
                        interp.st.funs[m.fun].this = 0

\* b.x = 3 was read back through a, the other reference to the instance
C13_Witness ==
    /\ Stopped(PropertyUnit("shared"))
    /\ interp.st.out = <<"3">>
    /\ interp.st.instances[1].fields = {[name |-> "x", val |-> NumObj(3)]}

\* C20: a function whose body ends without Return yields nil, the class call
\* yields the instance, and init called on an instance yields that instance,
\* whether its body completes or executes `return;`.
C20_InitializerYieldsInstance ==
    \A bare \in BOOLEAN :
        Stopped(InitUnit(bare)) =>
            /\ interp.ph = "exit" /\ interp.failed = "none"
            /\ interp.st.out = <<"nil", "1", "1">>

\* C21: a run-time error raised in the body of a function, of a function it
\* calls, of a method or of an init run by a class call aborts the body and
\* ends the script as the error of the call: nothing after the failing
\* statement is printed, and the error is never a Return signal.
C21_ErrorsPropagateThroughCalls ==
    \A kind \in ErrorKinds :
        Stopped(ErrorUnit(kind)) =>
            /\ interp.failed = "execute"
            /\ interp.err = "TypeError"
            /\ interp.st.out = <<"in">>

\* C22: a `return` outside any function, with or without a value, and a
\* `return <expr>` inside an initializer are rejected by the resolver before
\* anything runs, so that no script ends with a Return signal as its error.
C22_MisplacedReturnRejected ==
    /\ \A place \in ReturnPlaces : \A valued \in BOOLEAN :
            Stopped(MisplacedReturnUnit(place, valued)) =>
                interp.failed = "resolve" /\ interp.ran = 0
    /\ Stopped(InitReturnUnit) => interp.failed = "resolve" /\ interp.ran = 0
    /\ interp.err # "Return"

\* C23: `print x;` executed while the global environment holds no binding
\* of x ends with the RuntimeError "Undefined variable" and neither prints a
\* value nor panics, whatever the earlier lines of the session did.
C23_UnboundReadIsRuntimeError ==
    (/\ interp.unit = PrintUnit
     /\ interp.ran = 1
     /\ interp.snap.envs[1].values["x"].st = "Absent")
        => /\ interp.ph = "prompt" \/ interp.ph = "exit"
           /\ interp.failed = "execute"
           /\ interp.err = "Undefined variable"
           /\ interp.st.out = interp.snap.out

\* C25: `class B < s { }` binds B when s is a class (and `class B { }`
\* always); when s holds a number, a string, nil, an instance or a function
\* the declaration fails with a RuntimeError, B stays unbound and the script
\* stops there.
C25_SuperclassMustBeClass ==
    \A kind \in SuperKinds :
        Stopped(InheritUnit(kind)) =>
            IF kind \in {"none", "class"}
            THEN /\ interp.failed = "none"
                 /\ interp.st.envs[1].values["B"].st = "Ready"
                 /\ interp.st.out = <<"next">>
            ELSE /\ interp.failed = "execute"
                 /\ interp.st.envs[1].values["B"].st = "Absent"
                 /\ interp.st.out = <<>>

\* C26: an assignment whose resolved distance leads to an environment of the
\* chain installs the value there (the read that follows sees it), and an
\* assignment whose resolved distance leads past the end of the chain fails
\* with an error instead of yielding the value.
C26_AssignReachesTargetOrFails ==
    /\ Stopped(AssignFromUnit(FALSE)) =>
            interp.failed = "none" /\ interp.st.out = <<"2", "2">>
    /\ Stopped(AssignFromUnit(TRUE)) =>
            interp.failed = "execute" /\ interp.st.out = <<>>

\* C27: the second of two calls of a memoized function runs the body again
\* and yields the body's own result unless its argument is the first call's
\* argument, same type and same value; only then is the cached result used.
C27_CacheKeyedByArgumentIdentity ==
    \A first \in MemoArguments : \A second \in MemoArguments :
        Stopped(MemoUnit(first, second)) =>
            /\ interp.failed = "none"
            /\ interp.st.out = IF first = second THEN <<"run", "true", "true">>
                               ELSE <<"run", "true", "run", "false">>

\* C30: once the resolver has returned, each reference to x is recorded under
\* its own token id with the number of scopes between the reference and the
\* innermost scope that declares x (1, 2, 0 and 0 for the four references),
\* nothing is recorded for h, which no scope holds, and at run time each
\* reference reads the binding at its own distance while h falls back to the
\* global lookup (Undefined variable).
C30_ResolveLocalRecordsDistance ==
    (interp.unit = ScopeUnit /\ interp.resolved) =>
        /\ {[id |-> l.id, dist |-> l.dist] : l \in interp.rs.locals}
              = {[id |-> 150, dist |-> 1], [id |-> 151, dist |-> 2],
                 [id |-> 152, dist |-> 0], [id |-> 153, dist |-> 0]}
        /\ Stopped(ScopeUnit) =>
              /\ interp.st.out = <<"2", "2", "2", "1">>
              /\ interp.failed = "execute"
              /\ interp.err = "Undefined variable"

C30_Witness ==
    /\ Stopped(ScopeUnit)
    /\ \E l \in interp.rs.locals : l.id = 151 /\ l.dist = 2
    /\ ~\E l \in interp.rs.locals : l.id = 154

\* C24: `is_ready x` never blocks and answers for the cell that the read of
\* the same reference uses: true where the read yields a value at once (the
\* cell is Ready), false where the read waits (the cell is Pending), and no
\* value where the read finds no binding; on a literal it is true.  Each
\* script is run once with the read and once with is_ready in its place.
C24_IsReadyTellsTheReadCell ==
    /\ \A case \in IsReadyCases :
            Stopped(IsReadyUnit(case, IsReadyOf)) => interp.ph = "exit"
    /\ Stopped(IsReadyUnit("rvalue", IsReadyOf)) => interp.st.out = <<"true">>
    /\ Stopped(IsReadyUnit("ready", ReadOf)) => interp.st.out = <<"1">>
    /\ Stopped(IsReadyUnit("ready", IsReadyOf)) => interp.st.out = <<"true">>
    /\ Stopped(IsReadyUnit("pending", ReadOf)) => interp.ph = "hung"
    /\ Stopped(IsReadyUnit("pending", IsReadyOf)) => interp.st.out = <<"false">>
    /\ Stopped(IsReadyUnit("shadowed", ReadOf)) => interp.st.out = <<"nil">>
    /\ Stopped(IsReadyUnit("shadowed", IsReadyOf)) => interp.st.out = <<"true">>
    /\ Stopped(IsReadyUnit("unresolved", ReadOf)) => interp.err = "Undefined variable"
    /\ Stopped(IsReadyUnit("unresolved", IsReadyOf)) => interp.st.out # <<"true">>

\* C28: no producer waits for the map lock of a reader that waits for that
\* producer: whenever a worker is about to install the Ready cell of its
\* declaration, every thread that holds a reference into that map entry while
\* waiting on the Pending cell of that declaration has been notified.
C28_NoProducerBehindItsReader ==
    \A w \in Workers :
        wk[w].pc = "insert" =>
            \A t \in Threads :
                (/\ HoldsRef(t, wk[w].task.env, wk[w].task.key)
                 /\ ReadCell(Th(t)).st = "Pending"
                 /\ ReadCell(Th(t)).d = wk[w].task.d)
                    => ReadCell(Th(t)).flag

\* C29: while a worker evaluates an initializer through an overlay, a
\* reference to a name other than the declared one, which from the real
\* environment of the declaration resolves to a binding, reads that same
\* binding.
C29_OverlayResolvesAsRealEnvironment ==
    \A w \in Workers :
        (/\ wk[w].pc = "read"
         /\ wk[w].task.sub # wk[w].task.env
         /\ wk[w].rbase = wk[w].task.sub
         /\ wk[w].rname # wk[w].task.key
         /\ ancestor(envs, wk[w].task.env, wk[w].rdist) # 0
         /\ envs[ancestor(envs, wk[w].task.env, wk[w].rdist)].values[wk[w].rname].st
                # "Absent")
            => ReadTarget(wk[w]) = ancestor(envs, wk[w].task.env, wk[w].rdist)

\* C31: a parameter of a function, of a method and of a lambda is declared
\* in a scope of the callable's own, so that it may bear the name of a variable
\* of the enclosing scope without clashing with it or replacing it, and the
\* scopes pushed for parameters and body are as many as the environments of a
\* call: the body reads its parameter and the outer x, and the variable a is
\* unchanged after the call.
C31_ParametersHaveTheirOwnScope ==
    \A kind \in CallableKinds : \A p \in {"a", "b"} :
        Stopped(ParamUnit(kind, p)) =>
            /\ interp.failed = "none" /\ interp.ph = "exit"
            /\ interp.st.out = IF kind = "method" THEN <<"3", "2">>
                               ELSE <<"3", "1", "2">>

\* C32: the expression of a return nested in two blocks of the body is
\* evaluated in the environment of the innermost block, where the return
\* statement stood: it reads that block's b and the x of the block around it,
\* and its value is the result of the call.
C32_ReturnEvaluatedWhereRaised ==
    Stopped(NestedReturnUnit) =>
        /\ interp.ph = "exit" /\ interp.failed = "none"
        /\ interp.st.out = <<"5">>

C32_Witness ==
    /\ Stopped(NestedReturnUnit)
    /\ interp.st.out = <<"5">>
    /\ Len(interp.st.envs) >= 5

\* C33: a call of wait_for_value returns: on a Pending cell after the
\* producer has completed, on a Ready cell at once; and what it returns is the
\* Result the cell holds, the same at every call.
C33_WaitForValueReturns ==
    /\ (interp.pc = "match") ~> (interp.pc = "returned")
    /\ [](interp.pc = "returned" =>
            interp.got = interp.slot.res /\ interp.slot.st = "Ready")

\* C34: between two calls of Resolver::resolve the resolver is at top level:
\* one scope, no current function, no current class, and no name declared but
\* not yet defined, whether the calls so far returned Ok or an error.
C34_ResolverStateRestored ==
    /\ Len(interp.rs.scopes) = 1
    /\ interp.rs.cf = "None"
    /\ interp.rs.cc = "None"
    /\ \A i \in 1..Len(interp.rs.scopes) :
            interp.rs.scopes[i].names = interp.rs.scopes[i].defined

\* C35: a thread that looks a name up in an environment where the name has
\* been bound finds a cell, the old one or the new one, also while another
\* thread is replacing the binding.
C35_RebindingIsAtomic ==
    \A t \in Threads :
        (/\ Th(t).pc = "read"
         /\ ReadTarget(Th(t)) # 0
         /\ envs[ReadTarget(Th(t))].last[Th(t).rname] # 0)
            => ReadCell(Th(t)).st # "Absent"

\* C36: while an assignment is the newest binding of a name in an
\* environment, the cell of the name there is Ready with the assigned value
\* whenever the session is between two lines, whatever the workers of older
\* declarations have done since.
C36_AssignmentOutlivesOlderInitializer ==
    \A e \in 1..Len(envs) : \A n \in Names :
        (/\ mn.pc = "prompt"
         /\ envs[e].last[n] # 0
         /\ decls[envs[e].last[n]].kind = "assign")
            => /\ envs[e].values[n].st = "Ready"
               /\ envs[e].values[n].res = evalRes[envs[e].last[n]]

\* The binding of name n in environment e that was the newest when declaration
\* d was made, 0 if there was none
BoundBefore(d, e, n) ==
    LET S == {i \in 1..(d - 1) : decls[i].name = n /\ decls[i].env = e}
    IN IF S = {} THEN 0 ELSE CHOOSE i \in S : \A j \in S : j <= i

\* C37: the value a deferred initializer `var z = x;` reads does not depend
\* on when its worker runs: the worker reads a binding of x made before the
\* declaration of z, or one that holds the same Result as the binding that
\* was the newest when z was declared.
C37_InitializerValueFixedAtDeclaration ==
    [][\A w \in Workers :
          (/\ wk[w].pc = "read"
           /\ wk[w].task.expr.k = "ref"
           /\ wk'[w].pc = "mark")
              => LET e == ReadTarget(wk[w])
                     b == BoundBefore(wk[w].task.d, e, wk[w].rname)
                 IN \/ ReadCell(wk[w]).d < wk[w].task.d
                    \/ b # 0 /\ wk'[w].val = CloneResult(evalRes[b])]_vars

\* C38: `return g()();` evaluates its callee g() once: g prints once, whether
\* what g returns is another function, which is then called, or a number,
\* which cannot be.
C38_ReturnedCallEvaluatedOnce ==
    \A callable \in BOOLEAN :
        Stopped(ReturnedCallUnit(callable)) =>
            interp.st.out = IF callable THEN <<"7", "1">> ELSE <<"7">>

\* C39: in t, called on an instance of B, super.m() is the m of A also after
\* the body has called a method on an instance of C; and the call of t has
\* bound no `this` in the environment of the script that made it.
C39_ReceiverStableInBody ==
    Stopped(ReceiverUnit) =>
        /\ interp.st.out = <<"A">>
        /\ interp.st.envs[1].values["this"].st = "Absent"

\* C40: when the script runner has exited, no job is waiting in the queue of
\* the pool, no worker is in the middle of one, and every deferred initializer
\* the script scheduled has completed.
C40_ExitWaitsForWorkers ==
    mn.pc = "exited" =>
        /\ queue = <<>>
        /\ \A w \in Workers : wk[w].pc = "idle"
        /\ \A d \in 1..Len(decls) : decls[d].kind = "put" => decls[d].done

====
